---- MODULE Spec2Model ----
(***************************************************************************)
(* The agentic sampling loop of computer_use_demo (loop.py) together with  *)
(* the remote tool gateway MCPClient (mcpclient.py), as a state machine.   *)
(*                                                                         *)
(* One behaviour is one call of sampling_loop: the parameters are chosen   *)
(* in Init, every step is one statement group of the function between two  *)
(* suspension points, and the environment (is_timeout, the provider, the   *)
(* tools, the remote servers, the callbacks) answers nondeterministically. *)
(***************************************************************************)
EXTENDS Integers, Sequences, FiniteSets, TLC

(* ------------------------------------------------------------------ *)
(* Bounds of the model                                                  *)
(* ------------------------------------------------------------------ *)

\* provider calls one run of sampling_loop may issue before is_timeout() turns true
MaxCalls == 2

\* content blocks the provider sends over one run of sampling_loop
MaxBlocks == 3

\* tool_use blocks the provider requests over one run of sampling_loop
MaxToolUses == 2

\* tools in a tool group, where the tool groups are arbitrary
MaxGroupLen == 3

\* turns after the first one in a transcript handed to the image filter
MaxTurns == 2

\* largest images_to_keep handed to the image filter
MaxKeep == 3

\* largest min_removal_threshold handed to the image filter
MaxChunk == 2

\* turns of the transcript a caller and sampling_loop build up over one session
MaxTranscript == 8

(* ------------------------------------------------------------------ *)
(* Values                                                               *)
(* ------------------------------------------------------------------ *)

\* class APIProvider(StrEnum)
APIProvider == {"anthropic", "bedrock", "vertex"}

\* evaluator.config["exec_mode"]; "mixed" is the default
ExecModes == {"mixed", "api", "gui"}

\* names a tool_use block of a response may carry
ToolNames == {"computer", "mcp_x"}

\* TOOL_GROUPS_BY_VERSION[tool_version].tools, as tool names in list order
TOOL_GROUPS_BY_VERSION ==
    [computer_use_20250124 |-> <<"computer", "str_replace_editor", "bash">>,
     computer_only         |-> <<"computer">>]

ToolVersions == DOMAIN TOOL_GROUPS_BY_VERSION

\* Remote tool servers (the entries of evaluator.config["mcp_servers"]): the
\* script path, whether session.initialize() succeeds, the tools it lists.
SrvA   == [path |-> "a.py",  init_ok |-> TRUE,  tools |-> <<"mcp_x">>]
SrvB   == [path |-> "b.js",  init_ok |-> TRUE,  tools |-> <<"computer", "mcp_x">>]
SrvDown == [path |-> "d.py", init_ok |-> FALSE, tools |-> <<>>]
SrvTxt == [path |-> "c.txt", init_ok |-> TRUE,  tools |-> <<>>]

ServerLists ==
    { <<>>, <<SrvA>>, <<SrvB, SrvA>>, <<SrvA, SrvB>>, <<SrvA, SrvDown>>,
      <<SrvA, SrvTxt>> }

\* ToolResult (tools/base.py): None is "", a set field is a non-empty string
ToolResult(output, error, base64_image, system) ==
    [output |-> output, error |-> error, base64_image |-> base64_image,
     system |-> system]

\* what a local tool hands back from ToolCollection.run
LocalResults ==
    { ToolResult("out", "", "", ""),
      ToolResult("", "", "png", ""),
      ToolResult("", "err", "", "") }

\* type of the first content item a remote call_tool returns
RemoteItemTypes == {"text", "image", "resource"}

\* content blocks of a provider response (BetaMessage.content)
TextBlock(text)  == [type |-> "text", text |-> text]
ThinkingBlock    == [type |-> "thinking", thinking |-> "th", signature |-> "sig"]
ToolUseBlock(id, name) == [type |-> "tool_use", id |-> id, name |-> name]

\* a response block before the provider has numbered its tool_use ids
RawBlocks ==
    {TextBlock("hi"), TextBlock(""), ThinkingBlock}
        \cup {ToolUseBlock(0, n) : n \in ToolNames}

RECURSIVE SeqsUpTo(_, _)
SeqsUpTo(S, n) ==
    IF n = 0 THEN { <<>> }
    ELSE LET shorter == SeqsUpTo(S, n - 1)
         IN  shorter \cup { Append(s, e) : s \in {t \in shorter : Len(t) = n - 1},
                                           e \in S }

\* tool_use ids are unique: the k-th block of the c-th response gets c * 10 + k
NumberIds(raw, call) ==
    [k \in 1..Len(raw) |->
        IF raw[k].type = "tool_use"
        THEN ToolUseBlock(call * 10 + k, raw[k].name)
        ELSE raw[k]]

Responses(call, n) == { NumberIds(raw, call) : raw \in SeqsUpTo(RawBlocks, n) }

ToolUses(blocks) == SelectSeq(blocks, LAMBDA b : b.type = "tool_use")

(* ------------------------------------------------------------------ *)
(* Python values                                                        *)
(* ------------------------------------------------------------------ *)

\* A value that is a str or a list in the code carries its kind.
StrContent(s)  == [kind |-> "str", str |-> s]
ListContent(l) == [kind |-> "list", list |-> l]

\* None where a str is expected
NoneContent == [kind |-> "None"]

\* dict.get("cache_control") is set / dict["cache_control"] = ... / dict.pop(...)
HasCacheControl(d) == "cache_control" \in DOMAIN d
SetCacheControl(d) ==
    [k \in DOMAIN d \cup {"cache_control"} |->
        IF k = "cache_control" THEN "ephemeral" ELSE d[k]]
PopCacheControl(d) == [k \in DOMAIN d \ {"cache_control"} |-> d[k]]

(* ------------------------------------------------------------------ *)
(* loop.py: the pure helpers                                            *)
(* ------------------------------------------------------------------ *)

\* _maybe_prepend_system_tool_result
_maybe_prepend_system_tool_result(result, result_text) ==
    IF result.system # ""
    THEN "<system>" \o result.system \o "</system>\n" \o result_text
    ELSE result_text

\* mutant of _make_api_tool_result: the error text is used only when the
\* result holds neither output nor image
_make_api_tool_result_output_first(result, tool_use_id) ==
    [type |-> "tool_result",
     content |->
        IF result.error # "" /\ result.output = "" /\ result.base64_image = ""
        THEN StrContent(_maybe_prepend_system_tool_result(result, result.error))
        ELSE ListContent(
                (IF result.output # ""
                 THEN << [type |-> "text",
                          text |-> _maybe_prepend_system_tool_result(result, result.output)] >>
                 ELSE << >>)
                \o
                (IF result.base64_image # ""
                 THEN << [type |-> "image", data |-> result.base64_image] >>
                 ELSE << >>)),
     tool_use_id |-> tool_use_id,
     is_error |-> (result.error # "")]

\* _make_api_tool_result: error wins over output and image
_make_api_tool_result(result, tool_use_id) ==
    [type |-> "tool_result",
     content |->
        IF result.error # ""
        THEN StrContent(_maybe_prepend_system_tool_result(result, result.error))
        ELSE ListContent(
                (IF result.output # ""
                 THEN << [type |-> "text",
                          text |-> _maybe_prepend_system_tool_result(result, result.output)] >>
                 ELSE << >>)
                \o
                (IF result.base64_image # ""
                 THEN << [type |-> "image", data |-> result.base64_image] >>
                 ELSE << >>)),
     tool_use_id |-> tool_use_id,
     is_error |-> (result.error # "")]

\* mutant of _response_to_params: of the blocks that are no text block only
\* the tool_use blocks are kept
RECURSIVE _response_to_params_tool_use_only(_)
_response_to_params_tool_use_only(content) ==
    IF content = <<>> THEN <<>>
    ELSE LET block == Head(content)
             rest  == _response_to_params_tool_use_only(Tail(content))
         IN  IF block.type = "text"
             THEN IF block.text # "" THEN <<TextBlock(block.text)>> \o rest ELSE rest
             ELSE IF block.type = "tool_use" THEN <<block>> \o rest ELSE rest

\* _response_to_params: a BetaTextBlock is kept when its text is non-empty and
\* dropped otherwise (its "thinking" branch needs a text block of type thinking);
\* every other block is model_dump()ed as it is.
RECURSIVE _response_to_params(_)
_response_to_params(content) ==
    IF content = <<>> THEN <<>>
    ELSE LET block == Head(content)
             rest  == _response_to_params(Tail(content))
         IN  IF block.type = "text"
             THEN IF block.text # "" THEN <<TextBlock(block.text)>> \o rest ELSE rest
             ELSE <<block>> \o rest

\* the images of one tool_result block, as the sum at loop.py:369 counts them
ImagesIn(block) ==
    IF block.type = "tool_result" /\ block.content.kind = "list"
    THEN Len(SelectSeq(block.content.list, LAMBDA c : c.type = "image"))
    ELSE 0

RECURSIVE ImagesInBlocks(_)
ImagesInBlocks(blocks) ==
    IF blocks = <<>> THEN 0
    ELSE ImagesIn(Head(blocks)) + ImagesInBlocks(Tail(blocks))

\* total_images over the tool_result blocks of all messages with list content
RECURSIVE TotalImages(_)
TotalImages(msgs) ==
    IF msgs = <<>> THEN 0
    ELSE (IF Head(msgs).content.kind = "list"
          THEN ImagesInBlocks(Head(msgs).content.list) ELSE 0)
         + TotalImages(Tail(msgs))

\* mutant of FilterItems: the inner loop forgets to test the item's type
RECURSIVE FilterItems_any_item(_, _)
FilterItems_any_item(items, n) ==
    IF items = <<>> THEN [items |-> <<>>, n |-> n]
    ELSE LET c == Head(items)
         IN  IF n > 0
             THEN FilterItems_any_item(Tail(items), n - 1)
             ELSE LET r == FilterItems_any_item(Tail(items), n)
                  IN  [items |-> <<c>> \o r.items, n |-> r.n]

\* loop.py:383-389 for one content list: drop images while images_to_remove > 0
RECURSIVE FilterItems(_, _)
FilterItems(items, n) ==
    IF items = <<>> THEN [items |-> <<>>, n |-> n]
    ELSE LET c == Head(items)
         IN  IF c.type = "image" /\ n > 0
             THEN FilterItems(Tail(items), n - 1)
             ELSE LET r == FilterItems(Tail(items), n)
                  IN  [items |-> <<c>> \o r.items, n |-> r.n]

RECURSIVE FilterBlocks(_, _)
FilterBlocks(blocks, n) ==
    IF blocks = <<>> THEN [blocks |-> <<>>, n |-> n]
    ELSE LET b == Head(blocks)
         IN  IF b.type = "tool_result" /\ b.content.kind = "list"
             THEN LET f == FilterItems(b.content.list, n)
                      r == FilterBlocks(Tail(blocks), f.n)
                  IN  [blocks |-> <<[b EXCEPT !.content = ListContent(f.items)]>> \o r.blocks,
                       n |-> r.n]
             ELSE LET r == FilterBlocks(Tail(blocks), n)
                  IN  [blocks |-> <<b>> \o r.blocks, n |-> r.n]

\* mutant of FilterMessages: the tool_result blocks are walked from the last
\* message to the first
RECURSIVE FilterMessages_newest_first(_, _)
FilterMessages_newest_first(msgs, n) ==
    IF msgs = <<>> THEN <<>>
    ELSE LET m     == msgs[Len(msgs)]
             front == SubSeq(msgs, 1, Len(msgs) - 1)
         IN  IF m.content.kind = "list"
             THEN LET f == FilterBlocks(m.content.list, n)
                  IN  FilterMessages_newest_first(front, f.n)
                          \o <<[m EXCEPT !.content = ListContent(f.blocks)]>>
             ELSE FilterMessages_newest_first(front, n) \o <<m>>

RECURSIVE FilterMessages(_, _)
FilterMessages(msgs, n) ==
    IF msgs = <<>> THEN <<>>
    ELSE LET m == Head(msgs)
         IN  IF m.content.kind = "list"
             THEN LET f == FilterBlocks(m.content.list, n)
                  IN  <<[m EXCEPT !.content = ListContent(f.blocks)]>>
                          \o FilterMessages(Tail(msgs), f.n)
             ELSE <<m>> \o FilterMessages(Tail(msgs), n)

\* mutant of ImagesToRemove: the count is not cut down to whole chunks
ImagesToRemove_no_chunks(msgs, keep, threshold) ==
    TotalImages(msgs) - keep

\* mutant of ImagesToRemove: the total is cut down to whole chunks, not the excess
ImagesToRemove_rounds_total(msgs, keep, threshold) ==
    (TotalImages(msgs) - (TotalImages(msgs) % threshold)) - keep

\* images_to_remove of loop.py:376-378 (min_removal_threshold # 0)
ImagesToRemove(msgs, keep, threshold) ==
    LET images_to_remove == TotalImages(msgs) - keep
    IN  images_to_remove - (images_to_remove % threshold)

\* Python's None where an int is expected
None == -1

\* _maybe_filter_to_n_most_recent_images: the messages after the in-place edit
_maybe_filter_to_n_most_recent_images(msgs, keep, threshold) ==
    IF keep = None THEN msgs
    ELSE FilterMessages(msgs, ImagesToRemove(msgs, keep, threshold))

\* mutant of InjectFrom: the role of the message is not tested
RECURSIVE InjectFrom_any_role(_, _, _)
InjectFrom_any_role(msgs, k, breakpoints_remaining) ==
    IF k = 0 THEN msgs
    ELSE LET m == msgs[k]
         IN  IF m.content.kind = "list"
             THEN LET content == m.content.list
                      last    == content[Len(content)]
                  IN  IF breakpoints_remaining > 0
                      THEN InjectFrom_any_role(
                              [msgs EXCEPT ![k].content.list[Len(content)] =
                                                SetCacheControl(last)],
                              k - 1, breakpoints_remaining - 1)
                      ELSE [msgs EXCEPT ![k].content.list[Len(content)] =
                                                PopCacheControl(last)]
             ELSE InjectFrom_any_role(msgs, k - 1, breakpoints_remaining)

\* mutant of InjectFrom: no break, the hint of every older turn is stripped
RECURSIVE InjectFrom_strips_all(_, _, _)
InjectFrom_strips_all(msgs, k, breakpoints_remaining) ==
    IF k = 0 THEN msgs
    ELSE LET m == msgs[k]
         IN  IF m.role = "user" /\ m.content.kind = "list"
             THEN LET content == m.content.list
                      last    == content[Len(content)]
                  IN  IF breakpoints_remaining > 0
                      THEN InjectFrom_strips_all(
                              [msgs EXCEPT ![k].content.list[Len(content)] =
                                                SetCacheControl(last)],
                              k - 1, breakpoints_remaining - 1)
                      ELSE InjectFrom_strips_all(
                              [msgs EXCEPT ![k].content.list[Len(content)] =
                                                PopCacheControl(last)],
                              k - 1, breakpoints_remaining)
             ELSE InjectFrom_strips_all(msgs, k - 1, breakpoints_remaining)

\* _inject_prompt_caching, scanning messages[1..k] from the back
RECURSIVE InjectFrom(_, _, _)
InjectFrom(msgs, k, breakpoints_remaining) ==
    IF k = 0 THEN msgs
    ELSE LET m == msgs[k]
         IN  IF m.role = "user" /\ m.content.kind = "list"
             THEN LET content == m.content.list
                      last    == content[Len(content)]
                  IN  IF breakpoints_remaining > 0
                      THEN InjectFrom(
                              [msgs EXCEPT ![k].content.list[Len(content)] =
                                                SetCacheControl(last)],
                              k - 1, breakpoints_remaining - 1)
                      ELSE [msgs EXCEPT ![k].content.list[Len(content)] =
                                                PopCacheControl(last)]
             ELSE InjectFrom(msgs, k - 1, breakpoints_remaining)

_inject_prompt_caching(msgs) == InjectFrom(msgs, Len(msgs), 3)

(* ------------------------------------------------------------------ *)
(* mcpclient.py: MCPClient                                              *)
(* ------------------------------------------------------------------ *)

\* str.endswith('.py') or str.endswith('.js')
EndsWith(s, suffix) ==
    Len(s) >= Len(suffix) /\ SubSeq(s, Len(s) - Len(suffix) + 1, Len(s)) = suffix

ScriptPathOk(server_script_path) ==
    EndsWith(server_script_path, ".py") \/ EndsWith(server_script_path, ".js")

InSeq(e, s) == \E k \in 1..Len(s) : s[k] = e

\* MCPClient.list_tools: the tools of all sessions, in connection order
RECURSIVE list_tools(_)
list_tools(sess) ==
    IF sess = <<>> THEN <<>>
    ELSE Head(sess).tools \o list_tools(Tail(sess))

\* the sessions MCPClient.call_tool asks for their tool list, in order, until
\* one lists the name: 0 when none does
RECURSIVE OwnerFrom(_, _, _)
OwnerFrom(sess, name, k) ==
    IF k > Len(sess) THEN 0
    ELSE IF InSeq(name, sess[k].tools) THEN k
    ELSE OwnerFrom(sess, name, k + 1)

Owner(sess, name) == OwnerFrom(sess, name, 1)

\* mutant of RequestsFrom: the loop over the sessions goes on after the call
RECURSIVE RequestsFrom_broadcast(_, _, _)
RequestsFrom_broadcast(sess, name, k) ==
    IF k > Len(sess) THEN <<>>
    ELSE << [session |-> k, request |-> "list_tools"] >>
         \o (IF InSeq(name, sess[k].tools)
             THEN << [session |-> k, request |-> "call_tool"] >>
             ELSE <<>>)
         \o RequestsFrom_broadcast(sess, name, k + 1)

\* the requests MCPClient.call_tool sends to the sessions from the k-th on:
\* list_tools to each session in turn, call_tool to the first that lists the
\* name, and nothing after it (the function returns or raises there)
RECURSIVE RequestsFrom(_, _, _)
RequestsFrom(sess, name, k) ==
    IF k > Len(sess) THEN <<>>
    ELSE << [session |-> k, request |-> "list_tools"] >>
         \o (IF InSeq(name, sess[k].tools)
             THEN << [session |-> k, request |-> "call_tool"] >>
             ELSE RequestsFrom(sess, name, k + 1))

\* MCPClient.call_tool: what the call raises ("" when it returns) and the
\* ToolResult it returns, for the type of the item the owning session sends
call_tool(sess, name, item_type) ==
    IF sess = <<>>
    THEN [raises |-> "RuntimeError: No active sessions", result |-> ToolResult("", "", "", "")]
    ELSE IF Owner(sess, name) = 0
    THEN [raises |-> "ValueError: Tool not found", result |-> ToolResult("", "", "", "")]
    ELSE IF item_type = "text"
    THEN [raises |-> "", result |-> ToolResult("text", "", "", "")]
    ELSE IF item_type = "image"
    THEN [raises |-> "", result |-> ToolResult("", "", "data", "")]
    ELSE [raises |-> "ValueError: Unsupported content type",
          result |-> ToolResult("", "", "", "")]

\* Python's `sub in s` on two strings
Contains(s, sub) ==
    \E k \in 1..(Len(s) - Len(sub) + 1) : SubSeq(s, k, k + Len(sub) - 1) = sub

\* for tool in tool_group.tools: if "computer" in tool.name: tool_group.tools.remove(tool)
\* (a Python list iterator is an index into the list being edited)
RECURSIVE RemoveWhileIterating(_, _)
RemoveWhileIterating(tools, k) ==
    IF k > Len(tools) THEN tools
    ELSE IF Contains(tools[k], "computer")
         THEN RemoveWhileIterating(SubSeq(tools, 1, k - 1) \o SubSeq(tools, k + 1, Len(tools)),
                                   k + 1)
         ELSE RemoveWhileIterating(tools, k + 1)

(* ------------------------------------------------------------------ *)
(* State                                                                *)
(* ------------------------------------------------------------------ *)

VARIABLES
    provider,           \* parameter provider
    evaluator,          \* parameter evaluator: "None" or "set"
    exec_mode,          \* evaluator.config["exec_mode"]
    mcp_servers,        \* evaluator.config["mcp_servers"]
    tool_version,       \* parameter tool_version
    only_n_most_recent_images,  \* parameter, reassigned at loop.py:248; None is 0
    tool_groups,        \* the module-level table TOOL_GROUPS_BY_VERSION
    messages,           \* parameter messages, edited in place
    pc,                 \* where sampling_loop stands
    sessions,           \* mcp_client.sessions
    exit_stack,         \* contexts entered on mcp_client.exit_stack, still open
    cleanups,           \* calls of mcp_client.cleanup()
    tool_map,           \* tool_collection.tool_map.keys()
    all_tool_list,      \* names of the descriptors in all_tool_list
    connected,          \* servers of mcp_servers the connect loop has passed
    system_cached,      \* system carries cache_control
    raw_response,       \* the content blocks of raw_response while sampling_loop
                        \* stands between loop.py:270 and 293, <<>> otherwise
    response_params,    \* the blocks of the assistant turn being walked
    i,                  \* index of the for loop over response_params
    tool_result_content,
    outcome,            \* "running", "return messages", "return None", "raise"
    exc,                \* the exception leaving sampling_loop, "" when none
    api_calls,          \* provider calls issued
    observer_calls,     \* api_response_callback invocations
    last_observed,      \* third argument of the last api_response_callback call
    timeout_checks,     \* evaluations of is_timeout()
    dispatches,         \* tool dispatches started
    blocks_received,    \* content blocks the provider has sent
    handled,            \* per dispatch carried out: the tool name and who ran it
    call_log,           \* requests the last mcp_client.call_tool sent to sessions
    images_to_keep,     \* argument of a direct call of the image filter
    min_removal_threshold,  \* argument of a direct call of the image filter
    evaluator_task_id,  \* parameter evaluator_task_id: "None" or "set"
    record_event_raises,    \* whether evaluator.record_event may raise
    events,             \* the record_event calls: the event type and whether it got recorded
    callbacks_record,   \* whether the callbacks handed in keep their arguments (a
                        \* recording double) or only print them (as the callers' do)
    output_log,         \* the blocks output_callback was called with, each as its
                        \* place << turn, block >> in messages (it is the turn's own dict)
    tool_output_log     \* the (result, tool_use_id) pairs tool_output_callback was called with

vars ==
    << provider, evaluator, exec_mode, mcp_servers, tool_version,
       only_n_most_recent_images, tool_groups, messages, pc, sessions,
       exit_stack, cleanups, tool_map, all_tool_list, connected, system_cached,
       raw_response, response_params, i, tool_result_content, outcome, exc,
       api_calls,
       observer_calls, last_observed, timeout_checks, dispatches,
       blocks_received, handled, call_log, images_to_keep,
       min_removal_threshold, evaluator_task_id, record_event_raises, events,
       callbacks_record, output_log, tool_output_log >>

params == << provider, evaluator, exec_mode, mcp_servers, tool_version >>

local  == << raw_response, response_params, i, tool_result_content >>

gateway == << sessions, exit_stack, cleanups, connected >>

registry == << tool_groups, tool_map, all_tool_list, system_cached >>

counters == << api_calls, observer_calls, last_observed, timeout_checks, dispatches >>

routing == << handled, call_log >>

filter_args == << images_to_keep, min_removal_threshold >>

notifications == << evaluator_task_id, record_event_raises, events >>

callbacks == << callbacks_record, output_log, tool_output_log >>

\* the transcript the callers hand over: one user turn holding a text block
\* (run_pure_computer_use_with_eval.py:178)
UserTextTurn == [role |-> "user", content |-> ListContent(<<TextBlock("task")>>)]

\* sampling_loop treats vertex as it treats bedrock (the provider decides the
\* client class at loop.py:235-241 and the caching at 237-250 only), so the
\* main specification runs one of the two; SpecProviders runs all three
Init ==
    /\ provider \in {"anthropic", "bedrock"}
    /\ only_n_most_recent_images \in {0, 1}
    /\ evaluator \in {"None", "set"}
    /\ exec_mode \in ExecModes
    /\ mcp_servers \in ServerLists
    /\ tool_version \in ToolVersions
    /\ tool_groups = TOOL_GROUPS_BY_VERSION
    /\ messages = << UserTextTurn >>
    /\ pc = "entry"
    /\ sessions = <<>>
    /\ exit_stack = <<>>
    /\ cleanups = 0
    /\ tool_map = {}
    /\ all_tool_list = <<>>
    /\ connected = 0
    /\ system_cached = FALSE
    /\ raw_response = <<>>
    /\ response_params = <<>>
    /\ i = 1
    /\ tool_result_content = <<>>
    /\ outcome = "running"
    /\ exc = ""
    /\ api_calls = 0
    /\ observer_calls = 0
    /\ last_observed = ""
    /\ timeout_checks = 0
    /\ dispatches = 0
    /\ blocks_received = 0
    /\ handled = <<>>
    /\ call_log = <<>>
    /\ images_to_keep = None
    /\ min_removal_threshold = 0
    /\ evaluator_task_id = "None"
    /\ record_event_raises = FALSE
    /\ events = <<>>
    /\ callbacks_record = FALSE
    /\ output_log = <<>>
    /\ tool_output_log = <<>>

(* ------------------------------------------------------------------ *)
(* sampling_loop: entry and session set-up                              *)
(* ------------------------------------------------------------------ *)

\* an exception leaves the try block: the finally clause is next
Raise(e) ==
    /\ exc' = e
    /\ outcome' = "raise"
    /\ pc' = "finally"

\* loop.py:201-202. evaluator.config is read before the try block: with
\* evaluator None the attribute access raises and nothing has been built.
Enter ==
    /\ pc = "entry"
    /\ IF evaluator = "None"
       THEN /\ exc' = "AttributeError"
            /\ outcome' = "raise"
            /\ pc' = "done"
       ELSE /\ pc' = "setup"
            /\ UNCHANGED << exc, outcome >>
    /\ UNCHANGED << params, only_n_most_recent_images, messages, local,
                    gateway, registry, counters >>
    /\ UNCHANGED << blocks_received, routing, filter_args, notifications, callbacks >>

\* loop.py:204-211 (and 218-227 when no server is to be connected)
SetupTools ==
    /\ pc = "setup"
    /\ LET tools == IF exec_mode = "api"
                    THEN RemoveWhileIterating(tool_groups[tool_version], 1)
                    ELSE tool_groups[tool_version]
       IN  /\ tool_groups' = [tool_groups EXCEPT ![tool_version] = tools]
           /\ tool_map' = { tools[k] : k \in 1..Len(tools) }
           /\ all_tool_list' = tools
    /\ pc' = IF exec_mode \in {"mixed", "api"} THEN "connect" ELSE "loop"
    /\ UNCHANGED << params, only_n_most_recent_images, messages, local,
                    gateway, system_cached, counters, outcome, exc >>
    /\ UNCHANGED << blocks_received, routing, filter_args, notifications, callbacks >>

\* mutant of ConnectServer: the contexts are entered on the exit stack only
\* once initialize has succeeded
ConnectServer_enters_after_initialize ==
    /\ pc = "connect"
    /\ connected < Len(mcp_servers)
    /\ LET server == mcp_servers[connected + 1]
       IN  IF ~ScriptPathOk(server.path)
           THEN /\ Raise("ValueError: Server script must be a .py or .js file")
                /\ UNCHANGED << sessions, exit_stack, connected >>
           ELSE IF ~server.init_ok
           THEN /\ Raise("initialize failed")
                /\ UNCHANGED << sessions, exit_stack, connected >>
           ELSE /\ exit_stack' = exit_stack \o << <<"stdio_client", connected + 1>>,
                                                  <<"ClientSession", connected + 1>> >>
                /\ sessions' = Append(sessions, server)
                /\ connected' = connected + 1
                /\ UNCHANGED << pc, outcome, exc >>
    /\ UNCHANGED << params, only_n_most_recent_images, messages, local,
                    cleanups, registry, counters >>
    /\ UNCHANGED << blocks_received, routing, filter_args, notifications, callbacks >>

\* loop.py:213-214 with MCPClient.connect_to_server for the next server
ConnectServer ==
    /\ pc = "connect"
    /\ connected < Len(mcp_servers)
    /\ LET server == mcp_servers[connected + 1]
       IN  IF ~ScriptPathOk(server.path)
           THEN /\ Raise("ValueError: Server script must be a .py or .js file")
                /\ UNCHANGED << sessions, exit_stack, connected >>
           ELSE IF ~server.init_ok
           THEN /\ exit_stack' = exit_stack \o << <<"stdio_client", connected + 1>>,
                                                  <<"ClientSession", connected + 1>> >>
                /\ Raise("initialize failed")
                /\ UNCHANGED << sessions, connected >>
           ELSE /\ exit_stack' = exit_stack \o << <<"stdio_client", connected + 1>>,
                                                  <<"ClientSession", connected + 1>> >>
                /\ sessions' = Append(sessions, server)
                /\ connected' = connected + 1
                /\ UNCHANGED << pc, outcome, exc >>
    /\ UNCHANGED << params, only_n_most_recent_images, messages, local,
                    cleanups, registry, counters >>
    /\ UNCHANGED << blocks_received, routing, filter_args, notifications, callbacks >>

\* loop.py:215-227: the remote descriptors are appended to the local ones
PublishTools ==
    /\ pc = "connect"
    /\ connected = Len(mcp_servers)
    /\ all_tool_list' = all_tool_list \o list_tools(sessions)
    /\ pc' = "loop"
    /\ UNCHANGED << params, only_n_most_recent_images, messages, local, gateway,
                    tool_groups, tool_map, system_cached, counters, outcome, exc >>
    /\ UNCHANGED << blocks_received, routing, filter_args, notifications, callbacks >>

(* ------------------------------------------------------------------ *)
(* sampling_loop: the turn loop                                         *)
(* ------------------------------------------------------------------ *)

\* mutant of PrepareMessages: the filter runs whatever only_n_most_recent_images
\* is, with a chunk of at least one
PrepareMessages_always_filters(msgs, prov, only_n) ==
    IF prov = "anthropic"
    THEN _inject_prompt_caching(msgs)
    ELSE _maybe_filter_to_n_most_recent_images(
            msgs, only_n, IF only_n = 0 THEN 1 ELSE only_n)

\* mutant of PrepareMessages: the cache hints are injected for every provider
PrepareMessages_caches_always(msgs, prov, only_n) ==
    IF only_n # 0 /\ prov # "anthropic"
    THEN _maybe_filter_to_n_most_recent_images(
            _inject_prompt_caching(msgs), only_n, only_n)
    ELSE _inject_prompt_caching(msgs)

\* mutant of PrepareMessages: the filter is called with a chunk of one image
PrepareMessages_chunk_of_one(msgs, prov, only_n) ==
    IF prov = "anthropic"
    THEN _inject_prompt_caching(msgs)
    ELSE IF only_n # 0
    THEN _maybe_filter_to_n_most_recent_images(msgs, only_n, 1)
    ELSE msgs

\* loop.py:234-257: the transcript as the request carries it
PrepareMessages(msgs, prov, only_n) ==
    IF prov = "anthropic"
    THEN _inject_prompt_caching(msgs)
    ELSE IF only_n # 0
    THEN _maybe_filter_to_n_most_recent_images(msgs, only_n, only_n)
    ELSE msgs

\* mutant of TimeoutExit: is_timeout() consulted after the request was shaped
TimeoutExit_after_shaping ==
    /\ pc = "loop"
    /\ timeout_checks' = timeout_checks + 1
    /\ messages' = PrepareMessages(messages, provider, only_n_most_recent_images)
    /\ outcome' = "return None"
    /\ pc' = "finally"
    /\ UNCHANGED << params, only_n_most_recent_images, local,
                    gateway, registry, api_calls, observer_calls, last_observed,
                    dispatches, exc >>
    /\ UNCHANGED << blocks_received, routing, filter_args, notifications, callbacks >>

\* mutant of TimeoutExit: is_timeout() is also consulted between the blocks of
\* a response
TimeoutExit_between_blocks ==
    /\ pc \in {"loop", "blocks"}
    /\ timeout_checks' = timeout_checks + 1
    /\ outcome' = "return None"
    /\ pc' = "finally"
    /\ UNCHANGED << params, only_n_most_recent_images, messages, local,
                    gateway, registry, api_calls, observer_calls, last_observed,
                    dispatches, exc >>
    /\ UNCHANGED << blocks_received, routing, filter_args, notifications, callbacks >>

\* loop.py:229: is_timeout() is true; the while loop ends, the function runs
\* off its end (no return statement follows the loop) and returns None
TimeoutExit ==
    /\ pc = "loop"
    /\ timeout_checks' = timeout_checks + 1
    /\ outcome' = "return None"
    /\ pc' = "finally"
    /\ UNCHANGED << params, only_n_most_recent_images, messages, local,
                    gateway, registry, api_calls, observer_calls, last_observed,
                    dispatches, exc >>
    /\ UNCHANGED << blocks_received, routing, filter_args, notifications, callbacks >>

\* mutant of BeginIteration: with prompt caching the image retention count is
\* left as the caller set it and the filter runs after the injection
BeginIteration_keeps_retention ==
    /\ pc = "loop"
    /\ api_calls < MaxCalls
    /\ messages' =
            IF only_n_most_recent_images # 0
            THEN _maybe_filter_to_n_most_recent_images(
                    PrepareMessages(messages, provider, 0),
                    only_n_most_recent_images, only_n_most_recent_images)
            ELSE PrepareMessages(messages, provider, 0)
    /\ system_cached' = (system_cached \/ provider = "anthropic")
    /\ timeout_checks' = timeout_checks + 1
    /\ api_calls' = api_calls + 1
    /\ pc' = "api"
    /\ UNCHANGED << params, only_n_most_recent_images, local, gateway, tool_groups,
                    tool_map, all_tool_list, observer_calls, last_observed,
                    dispatches, outcome, exc >>
    /\ UNCHANGED << blocks_received, routing, filter_args, notifications, callbacks >>

\* mutant of BeginIteration: the next request is sent without waiting for the
\* for loop over the blocks of the last response
BeginIteration_while_walking ==
    /\ pc \in {"loop", "blocks"}
    /\ api_calls < MaxCalls
    /\ messages' = PrepareMessages(messages, provider, only_n_most_recent_images)
    /\ only_n_most_recent_images' =
            IF provider = "anthropic" THEN 0 ELSE only_n_most_recent_images
    /\ system_cached' = (system_cached \/ provider = "anthropic")
    /\ timeout_checks' = timeout_checks + 1
    /\ api_calls' = api_calls + 1
    /\ pc' = "api"
    /\ UNCHANGED << params, local, gateway, tool_groups, tool_map, all_tool_list,
                    observer_calls, last_observed, dispatches, outcome, exc >>
    /\ UNCHANGED << blocks_received, routing, filter_args, notifications, callbacks >>

\* loop.py:229-279: is_timeout() is false; the request is shaped and sent
BeginIteration ==
    /\ pc = "loop"
    /\ api_calls < MaxCalls
    /\ messages' = PrepareMessages(messages, provider, only_n_most_recent_images)
    /\ only_n_most_recent_images' =
            IF provider = "anthropic" THEN 0 ELSE only_n_most_recent_images
    /\ system_cached' = (system_cached \/ provider = "anthropic")
    /\ timeout_checks' = timeout_checks + 1
    /\ api_calls' = api_calls + 1
    /\ pc' = "api"
    /\ UNCHANGED << params, local, gateway, tool_groups, tool_map, all_tool_list,
                    observer_calls, last_observed, dispatches, outcome, exc >>
    /\ UNCHANGED << blocks_received, routing, filter_args, notifications, callbacks >>

\* mutant of ProviderStatusError: the except branch does not tell the observer
ProviderStatusError_unobserved ==
    /\ pc = "api"
    /\ last_observed' = "APIStatusError"
    /\ outcome' = "return messages"
    /\ pc' = "finally"
    /\ UNCHANGED << params, only_n_most_recent_images, messages, local, gateway,
                    registry, api_calls, observer_calls, timeout_checks,
                    dispatches, exc >>
    /\ UNCHANGED << blocks_received, routing, filter_args, notifications, callbacks >>

\* loop.py:280-282: APIStatusError or APIResponseValidationError
ProviderStatusError ==
    /\ pc = "api"
    /\ observer_calls' = observer_calls + 1
    /\ last_observed' = "APIStatusError"
    /\ outcome' = "return messages"
    /\ pc' = "finally"
    /\ UNCHANGED << params, only_n_most_recent_images, messages, local, gateway,
                    registry, api_calls, timeout_checks, dispatches, exc >>
    /\ UNCHANGED << blocks_received, routing, filter_args, notifications, callbacks >>

\* mutant of ProviderAPIError: the except branch lacks its return
ProviderAPIError_no_return ==
    /\ pc = "api"
    /\ observer_calls' = observer_calls + 1
    /\ last_observed' = "APIError"
    /\ pc' = "loop"
    /\ UNCHANGED << params, only_n_most_recent_images, messages, local, gateway,
                    registry, api_calls, timeout_checks, dispatches, outcome, exc >>
    /\ UNCHANGED << blocks_received, routing, filter_args, notifications, callbacks >>

\* loop.py:283-285: any other APIError
ProviderAPIError ==
    /\ pc = "api"
    /\ observer_calls' = observer_calls + 1
    /\ last_observed' = "APIError"
    /\ outcome' = "return messages"
    /\ pc' = "finally"
    /\ UNCHANGED << params, only_n_most_recent_images, messages, local, gateway,
                    registry, api_calls, timeout_checks, dispatches, exc >>
    /\ UNCHANGED << blocks_received, routing, filter_args, notifications, callbacks >>

\* loop.py:287-301: the response arrives and becomes the assistant turn
ProviderResponds ==
    /\ pc = "api"
    /\ \E response \in Responses(api_calls, MaxBlocks - blocks_received) :
        /\ dispatches + Len(ToolUses(response)) <= MaxToolUses
        /\ blocks_received' = blocks_received + Len(response)
        /\ response_params' = _response_to_params(response)
        /\ messages' = Append(messages,
                              [role |-> "assistant",
                               content |-> ListContent(_response_to_params(response))])
    /\ observer_calls' = observer_calls + 1
    /\ last_observed' = "None"
    /\ tool_result_content' = <<>>
    /\ i' = 1
    /\ pc' = "blocks"
    /\ UNCHANGED << params, only_n_most_recent_images, gateway, registry,
                    api_calls, timeout_checks, dispatches, outcome, exc, routing,
                    filter_args, notifications, callbacks, raw_response >>

\* output_callback(content_block) (loop.py:303), the block being block b of
\* turn m of messages
output_callback(m, b) ==
    output_log' = IF callbacks_record THEN Append(output_log, << m, b >>)
                  ELSE output_log

\* tool_output_callback(result, content_block["id"]) (loop.py:333)
tool_output_callback(result, tool_use_id) ==
    tool_output_log' =
        IF callbacks_record
        THEN Append(tool_output_log, [result |-> result, tool_use_id |-> tool_use_id])
        ELSE tool_output_log

\* loop.py:302-304: output_callback for a block that is no tool_use
OutputBlock ==
    /\ pc = "blocks"
    /\ i <= Len(response_params)
    /\ response_params[i].type # "tool_use"
    /\ output_callback(Len(messages), i)
    /\ i' = i + 1
    /\ UNCHANGED << params, only_n_most_recent_images, messages, raw_response,
                    response_params, tool_result_content, gateway, registry,
                    counters, pc, outcome, exc >>
    /\ UNCHANGED << blocks_received, routing, filter_args, notifications,
                    callbacks_record, tool_output_log >>

\* loop.py:303: output_callback is called and raises
OutputCallbackRaises ==
    /\ pc = "blocks"
    /\ i <= Len(response_params)
    /\ output_callback(Len(messages), i)
    /\ Raise("output_callback")
    /\ UNCHANGED << params, only_n_most_recent_images, messages, local, gateway,
                    registry, counters >>
    /\ UNCHANGED << blocks_received, routing, filter_args, notifications,
                    callbacks_record, tool_output_log >>

\* evaluator.record_event inside the try of _record_tool_call_start and
\* _record_tool_call_end (loop.py:125-131, 162-171): it returns, or it raises
\* and the except clause prints the error
record_event(event_type, event_data) ==
    \E recorded \in (IF record_event_raises THEN BOOLEAN ELSE {TRUE}) :
        events' = Append(events, [type |-> event_type, recorded |-> recorded,
                                  data |-> event_data])

\* _record_tool_call_start (loop.py:114-133)
_record_tool_call_start(tool_name) ==
    IF evaluator = "set" /\ evaluator_task_id = "set"
    THEN record_event("TOOL_CALL_START", [tool_name |-> tool_name])
    ELSE UNCHANGED events

\* mutant of event_data_result: the output is forwarded whole
event_data_result_untruncated(tool_result) ==
    IF tool_result.error = ""
    THEN IF tool_result.output # ""
         THEN StrContent(tool_result.output)
         ELSE IF tool_result.base64_image # ""
              THEN StrContent("[Screenshot Taken]")
              ELSE NoneContent
    ELSE StrContent(tool_result.error)

\* event_data["result"] of _record_tool_call_end (loop.py:153-166)
event_data_result(tool_result) ==
    IF tool_result.error = ""
    THEN IF tool_result.output # ""
         THEN LET output_str == tool_result.output
              IN  IF Len(output_str) > 1000
                  THEN StrContent(SubSeq(output_str, 1, 500) \o "... (truncated)")
                  ELSE StrContent(output_str)
         ELSE IF tool_result.base64_image # ""
              THEN StrContent("[Screenshot Taken]")
              ELSE NoneContent
    ELSE StrContent(tool_result.error)

\* event_data of _record_tool_call_end (loop.py:145-166), without the timestamp
event_data(tool_name, tool_result) ==
    [tool_name |-> tool_name,
     success   |-> (tool_result.error = ""),
     error     |-> tool_result.error,
     result    |-> event_data_result(tool_result)]

\* _record_tool_call_end (loop.py:136-173)
_record_tool_call_end(tool_name, tool_result) ==
    IF evaluator = "set" /\ evaluator_task_id = "set"
    THEN record_event("TOOL_CALL_END", event_data(tool_name, tool_result))
    ELSE UNCHANGED events

\* mutant of StartTool: a name a remote session declares goes to the gateway
StartTool_remote_first ==
    /\ pc = "blocks"
    /\ i <= Len(response_params)
    /\ response_params[i].type = "tool_use"
    /\ output_callback(Len(messages), i)
    /\ _record_tool_call_start(response_params[i].name)
    /\ dispatches' = dispatches + 1
    /\ pc' = IF Owner(sessions, response_params[i].name) = 0
                /\ response_params[i].name \in tool_map
             THEN "local_tool" ELSE "remote_tool"
    /\ UNCHANGED << params, only_n_most_recent_images, messages, local, gateway,
                    registry, api_calls, observer_calls, last_observed,
                    timeout_checks, outcome, exc >>
    /\ UNCHANGED << blocks_received, routing, filter_args, evaluator_task_id,
                    record_event_raises, callbacks_record, tool_output_log >>

\* mutant of StartTool: an exception of record_event leaves the start
\* notification and the tool is not run
StartTool_notification_propagates ==
    /\ pc = "blocks"
    /\ i <= Len(response_params)
    /\ response_params[i].type = "tool_use"
    /\ output_callback(Len(messages), i)
    /\ _record_tool_call_start(response_params[i].name)
    /\ IF events' # events /\ ~events'[Len(events')].recorded
       THEN /\ Raise("record_event")
            /\ UNCHANGED dispatches
       ELSE /\ dispatches' = dispatches + 1
            /\ pc' = IF response_params[i].name \in tool_map
                     THEN "local_tool" ELSE "remote_tool"
            /\ UNCHANGED << outcome, exc >>
    /\ UNCHANGED << params, only_n_most_recent_images, messages, local, gateway,
                    registry, api_calls, observer_calls, last_observed,
                    timeout_checks >>
    /\ UNCHANGED << blocks_received, routing, filter_args, evaluator_task_id,
                    record_event_raises, callbacks_record, tool_output_log >>

\* loop.py:303-323: output_callback, the start notification, and the tool of a
\* tool_use block is started, locally or through the gateway
StartTool ==
    /\ pc = "blocks"
    /\ i <= Len(response_params)
    /\ response_params[i].type = "tool_use"
    /\ output_callback(Len(messages), i)
    /\ _record_tool_call_start(response_params[i].name)
    /\ dispatches' = dispatches + 1
    /\ pc' = IF response_params[i].name \in tool_map THEN "local_tool" ELSE "remote_tool"
    /\ UNCHANGED << params, only_n_most_recent_images, messages, local, gateway,
                    registry, api_calls, observer_calls, last_observed,
                    timeout_checks, outcome, exc >>
    /\ UNCHANGED << blocks_received, routing, filter_args, evaluator_task_id,
                    record_event_raises, callbacks_record, tool_output_log >>

\* mutant of FinishTool: a failed tool gets no tool_result block
FinishTool_drops_errors(result) ==
    /\ _record_tool_call_end(response_params[i].name, result)
    /\ tool_result_content' =
            IF result.error # "" THEN tool_result_content
            ELSE Append(tool_result_content,
                        _make_api_tool_result(result, response_params[i].id))
    /\ tool_output_callback(result, response_params[i].id)
    /\ i' = i + 1
    /\ pc' = "blocks"
    /\ UNCHANGED << raw_response, response_params, outcome, exc >>

\* loop.py:325-333: the end notification, the tool_result block, tool_output_callback
FinishTool(result) ==
    /\ _record_tool_call_end(response_params[i].name, result)
    /\ tool_result_content' =
            Append(tool_result_content,
                   _make_api_tool_result(result, response_params[i].id))
    /\ tool_output_callback(result, response_params[i].id)
    /\ i' = i + 1
    /\ pc' = "blocks"
    /\ UNCHANGED << raw_response, response_params, outcome, exc >>

\* loop.py:315-318: tool_collection.run returns the tool's ToolResult
LocalToolReturns ==
    /\ pc = "local_tool"
    /\ \E result \in LocalResults : FinishTool(result)
    /\ handled' = Append(handled, [name |-> response_params[i].name, by |-> "local"])
    /\ UNCHANGED << params, only_n_most_recent_images, messages, gateway,
                    registry, counters, blocks_received, call_log, filter_args,
                    evaluator_task_id, record_event_raises, callbacks_record,
                    output_log >>

\* loop.py:320-323: mcp_client.call_tool returns or raises
RemoteTool ==
    /\ pc = "remote_tool"
    /\ \E item_type \in RemoteItemTypes :
        LET r == call_tool(sessions, response_params[i].name, item_type)
        IN  IF r.raises = ""
            THEN FinishTool(r.result)
            ELSE /\ Raise(r.raises)
                 /\ UNCHANGED << local, events, tool_output_log >>
    /\ handled' = Append(handled, [name |-> response_params[i].name, by |-> "remote"])
    /\ call_log' = RequestsFrom(sessions, response_params[i].name, 1)
    /\ UNCHANGED << params, only_n_most_recent_images, messages, gateway,
                    registry, counters, blocks_received, filter_args,
                    evaluator_task_id, record_event_raises, callbacks_record,
                    output_log >>

\* mutant of ReturnNoTools: the loop goes round again instead of returning
ReturnNoTools_continues ==
    /\ pc = "blocks"
    /\ i > Len(response_params)
    /\ tool_result_content = <<>>
    /\ pc' = "loop"
    /\ UNCHANGED << params, only_n_most_recent_images, messages, local, gateway,
                    registry, counters, outcome, exc >>
    /\ UNCHANGED << blocks_received, routing, filter_args, notifications, callbacks >>

\* loop.py:335-336: no tool_result was built
ReturnNoTools ==
    /\ pc = "blocks"
    /\ i > Len(response_params)
    /\ tool_result_content = <<>>
    /\ outcome' = "return messages"
    /\ pc' = "finally"
    /\ UNCHANGED << params, only_n_most_recent_images, messages, local, gateway,
                    registry, counters, exc >>
    /\ UNCHANGED << blocks_received, routing, filter_args, notifications, callbacks >>

\* mutant of AppendToolResults: the loop returns once the tool results are in
AppendToolResults_returns ==
    /\ pc = "blocks"
    /\ i > Len(response_params)
    /\ tool_result_content # <<>>
    /\ messages' = Append(messages,
                          [role |-> "user", content |-> ListContent(tool_result_content)])
    /\ outcome' = "return messages"
    /\ pc' = "finally"
    /\ UNCHANGED << params, only_n_most_recent_images, local, gateway, registry,
                    counters, exc >>
    /\ UNCHANGED << blocks_received, routing, filter_args, notifications, callbacks >>

\* loop.py:338: the tool_result turn is appended
AppendToolResults ==
    /\ pc = "blocks"
    /\ i > Len(response_params)
    /\ tool_result_content # <<>>
    /\ messages' = Append(messages,
                          [role |-> "user", content |-> ListContent(tool_result_content)])
    /\ pc' = "loop"
    /\ UNCHANGED << params, only_n_most_recent_images, local, gateway, registry,
                    counters, outcome, exc >>
    /\ UNCHANGED << blocks_received, routing, filter_args, notifications, callbacks >>

\* mutant of Cleanup: only the contexts of the sessions in self.sessions close
Cleanup_sessions_only ==
    /\ pc = "finally"
    /\ exit_stack' = SelectSeq(exit_stack, LAMBDA c : c[2] > Len(sessions))
    /\ cleanups' = cleanups + 1
    /\ pc' = "done"
    /\ UNCHANGED << params, only_n_most_recent_images, messages, local, sessions,
                    connected, registry, counters, outcome, exc >>
    /\ UNCHANGED << blocks_received, routing, filter_args, notifications, callbacks >>

\* loop.py:339-340 with MCPClient.cleanup: the exit stack closes every context
Cleanup ==
    /\ pc = "finally"
    /\ exit_stack' = <<>>
    /\ cleanups' = cleanups + 1
    /\ pc' = "done"
    /\ UNCHANGED << params, only_n_most_recent_images, messages, local, sessions,
                    connected, registry, counters, outcome, exc >>
    /\ UNCHANGED << blocks_received, routing, filter_args, notifications, callbacks >>

Next ==
    \/ Enter
    \/ SetupTools
    \/ ConnectServer
    \/ PublishTools
    \/ TimeoutExit
    \/ BeginIteration
    \/ ProviderStatusError
    \/ ProviderAPIError
    \/ ProviderResponds
    \/ OutputBlock
    \/ OutputCallbackRaises
    \/ StartTool
    \/ LocalToolReturns
    \/ RemoteTool
    \/ ReturnNoTools
    \/ AppendToolResults
    \/ Cleanup

Spec == Init /\ [][Next]_vars

(* ------------------------------------------------------------------ *)
(* Session set-up over arbitrary tool groups                            *)
(* ------------------------------------------------------------------ *)

\* names the tools of a tool group may carry (tool.name)
LocalToolNames == {"computer", "screen_computer_2", "bash"}

\* tool groups without two tools of the same name
ToolGroups ==
    { g \in SeqsUpTo(LocalToolNames, MaxGroupLen) :
        \A a, b \in 1..Len(g) : a # b => g[a] # g[b] }

\* sampling_loop is entered with any tool group behind tool_version
InitToolGroups ==
    /\ provider = "bedrock"
    /\ only_n_most_recent_images = 0
    /\ evaluator = "set"
    /\ exec_mode \in ExecModes
    /\ mcp_servers \in { <<>>, <<SrvA>> }
    /\ tool_version \in ToolVersions
    /\ \E g \in ToolGroups : tool_groups = [v \in ToolVersions |-> g]
    /\ messages = << UserTextTurn >>
    /\ pc = "entry"
    /\ sessions = <<>>
    /\ exit_stack = <<>>
    /\ cleanups = 0
    /\ tool_map = {}
    /\ all_tool_list = <<>>
    /\ connected = 0
    /\ system_cached = FALSE
    /\ raw_response = <<>>
    /\ response_params = <<>>
    /\ i = 1
    /\ tool_result_content = <<>>
    /\ outcome = "running"
    /\ exc = ""
    /\ api_calls = 0
    /\ observer_calls = 0
    /\ last_observed = ""
    /\ timeout_checks = 0
    /\ dispatches = 0
    /\ blocks_received = 0
    /\ handled = <<>>
    /\ call_log = <<>>
    /\ images_to_keep = None
    /\ min_removal_threshold = 0
    /\ evaluator_task_id = "set"
    /\ record_event_raises = FALSE
    /\ events = <<>>
    /\ callbacks_record = FALSE
    /\ output_log = <<>>
    /\ tool_output_log = <<>>

\* loop.py:201-227: up to the publication of the descriptors
NextToolGroups ==
    \/ Enter
    \/ SetupTools
    \/ ConnectServer
    \/ PublishTools

SpecToolGroups == InitToolGroups /\ [][NextToolGroups]_vars

(* ------------------------------------------------------------------ *)
(* The image filter over arbitrary transcripts                          *)
(* ------------------------------------------------------------------ *)

\* an image item (BetaImageBlockParam), told apart by its data
ImageItem(data) == [type |-> "image", data |-> data]

\* a tool_result block whose content is a list of text and image items
ToolResultBlock(id, items) ==
    [type |-> "tool_result", content |-> ListContent(items),
     tool_use_id |-> id, is_error |-> FALSE]

UserTurn(blocks) == [role |-> "user", content |-> ListContent(blocks)]

\* turns a transcript may hold: tool_result turns with images and text, a
\* tool_result with str content, an image outside any tool_result, a message
\* whose content is a str, an assistant turn of blocks
FilterTurns ==
    { UserTurn(<< ToolResultBlock(1, << ImageItem("a") >>) >>),
      UserTurn(<< ToolResultBlock(2, << TextBlock("t"), ImageItem("b"),
                                        TextBlock("u"), ImageItem("c") >>) >>),
      UserTurn(<< _make_api_tool_result(ToolResult("", "err", "", ""), 3),
                  ToolResultBlock(4, << ImageItem("d") >>) >>),
      UserTurn(<< ImageItem("e"), TextBlock("look") >>),
      [role |-> "assistant", content |-> StrContent("ok")],
      [role |-> "assistant",
       content |-> ListContent(<< TextBlock("hi"), ToolUseBlock(1, "computer") >>)] }

\* three tool_result turns holding 5, 2 and 4 images
ThreeImageTurns ==
    << UserTextTurn,
       UserTurn(<< ToolResultBlock(11, << ImageItem("i01") >>),
                   ToolResultBlock(12, << ImageItem("i02"), ImageItem("i03") >>),
                   ToolResultBlock(13, << TextBlock("t"), ImageItem("i04"),
                                          ImageItem("i05") >>) >>),
       [role |-> "assistant",
        content |-> ListContent(<< ToolUseBlock(21, "computer") >>)],
       UserTurn(<< ToolResultBlock(21, << ImageItem("i06"), ImageItem("i07") >>) >>),
       UserTurn(<< ToolResultBlock(31, << ImageItem("i08"), TextBlock("u"),
                                          ImageItem("i09") >>),
                   ToolResultBlock(32, << ImageItem("i10"), ImageItem("i11") >>) >>) >>

Transcripts ==
    { ThreeImageTurns }
        \cup { << UserTextTurn >> \o t : t \in SeqsUpTo(FilterTurns, MaxTurns) }

\* either the filter is called with any arguments, or sampling_loop reaches
\* loop.py:234 with any only_n_most_recent_images and a provider without
\* prompt caching
InitImageFilter ==
    /\ messages \in Transcripts
    /\ \/ /\ pc = "call"
          /\ images_to_keep \in {None} \cup 0..MaxKeep
          /\ min_removal_threshold \in 0..MaxChunk
          /\ only_n_most_recent_images = 0
          /\ provider = "bedrock"
       \/ /\ pc = "step"
          /\ images_to_keep = None
          /\ min_removal_threshold = 0
          /\ only_n_most_recent_images \in 0..MaxKeep
          /\ provider \in {"bedrock", "vertex"}
    /\ evaluator = "set"
    /\ exec_mode = "gui"
    /\ mcp_servers = <<>>
    /\ tool_version = "computer_only"
    /\ tool_groups = TOOL_GROUPS_BY_VERSION
    /\ sessions = <<>>
    /\ exit_stack = <<>>
    /\ cleanups = 0
    /\ tool_map = {}
    /\ all_tool_list = <<>>
    /\ connected = 0
    /\ system_cached = FALSE
    /\ raw_response = <<>>
    /\ response_params = <<>>
    /\ i = 1
    /\ tool_result_content = <<>>
    /\ outcome = "running"
    /\ exc = ""
    /\ api_calls = 0
    /\ observer_calls = 0
    /\ last_observed = ""
    /\ timeout_checks = 0
    /\ dispatches = 0
    /\ blocks_received = 0
    /\ handled = <<>>
    /\ call_log = <<>>
    /\ evaluator_task_id = "set"
    /\ record_event_raises = FALSE
    /\ events = <<>>
    /\ callbacks_record = FALSE
    /\ output_log = <<>>
    /\ tool_output_log = <<>>

\* loop.py:343-389: _maybe_filter_to_n_most_recent_images is called with the
\* arguments at hand, a first and then a second time; a zero
\* min_removal_threshold makes line 378 raise before anything is edited
FilterCall ==
    /\ pc \in {"call", "called"}
    /\ IF images_to_keep # None /\ min_removal_threshold = 0
       THEN /\ exc' = "ZeroDivisionError"
            /\ outcome' = "raise"
            /\ pc' = "done"
            /\ UNCHANGED messages
       ELSE /\ messages' = _maybe_filter_to_n_most_recent_images(
                                messages, images_to_keep, min_removal_threshold)
            /\ pc' = IF pc = "call" THEN "called" ELSE "done"
            /\ UNCHANGED << exc, outcome >>
    /\ UNCHANGED << params, only_n_most_recent_images, local, gateway, registry,
                    counters, blocks_received, routing, filter_args,
                    notifications, callbacks >>

\* loop.py:234 and 252-257: the filter as one iteration of sampling_loop runs it
FilterStep ==
    /\ pc = "step"
    /\ messages' = PrepareMessages(messages, provider, only_n_most_recent_images)
    /\ pc' = "done"
    /\ UNCHANGED << params, only_n_most_recent_images, local, gateway, registry,
                    counters, blocks_received, routing, filter_args, outcome, exc,
                    notifications, callbacks >>

NextImageFilter ==
    \/ FilterCall
    \/ FilterStep

SpecImageFilter == InitImageFilter /\ [][NextImageFilter]_vars

(* ------------------------------------------------------------------ *)
(* Vocabulary of the claims                                             *)
(* ------------------------------------------------------------------ *)

Exited == pc = "done"

Last(seq) == seq[Len(seq)]

\* the user turn at position k answers the assistant turn before it: one
\* tool_result per tool_use, same ids, same order
Answers(msgs, k) ==
    /\ k > 1
    /\ msgs[k].role = "user"
    /\ msgs[k - 1].role = "assistant"
    /\ LET uses    == ToolUses(msgs[k - 1].content.list)
           results == msgs[k].content.list
       IN  /\ Len(results) = Len(uses)
           /\ \A j \in 1..Len(results) :
                /\ results[j].type = "tool_result"
                /\ results[j].tool_use_id = uses[j].id

\* every assistant turn holding tool_use blocks is followed by its answers
WellFormed(msgs) ==
    \A k \in 1..Len(msgs) :
        (msgs[k].role = "assistant" /\ ToolUses(msgs[k].content.list) # <<>>)
            => (k < Len(msgs) /\ Answers(msgs, k + 1))

\* the tool_use under dispatch is declared by no connected session
UnknownToolCall ==
    /\ pc = "remote_tool"
    /\ sessions # <<>>
    /\ Owner(sessions, response_params[i].name) = 0

\* the step turned the tool_use under dispatch into an is_error tool_result
\* and went on with the loop
AnsweredWithError ==
    /\ pc' = "blocks"
    /\ exc' = ""
    /\ Len(tool_result_content') = Len(tool_result_content) + 1
    /\ Last(tool_result_content').is_error
    /\ Last(tool_result_content').tool_use_id = response_params[i].id

(* ------------------------------------------------------------------ *)
(* Claims                                                               *)
(* ------------------------------------------------------------------ *)

\* C1: every user turn sampling_loop has appended (every turn after the
\* caller's first one that has role user) holds exactly one tool_result per
\* tool_use of the assistant turn right before it, with the same ids in the
\* same order.
C1_ToolResultsMatchToolUses ==
    \A k \in 2..Len(messages) :
        messages[k].role = "user" => Answers(messages, k)

\* C1 witness: a tool_result turn answering two tool_use blocks was appended
C1_Witness ==
    /\ Len(messages) >= 3
    /\ messages[3].role = "user"
    /\ Len(messages[3].content.list) = 2
    /\ Len(ToolUses(messages[2].content.list)) = 2

\* C2 (as claimed): a tool_use whose name no local tool and no connected
\* session declares is answered with an is_error tool_result and the loop
\* goes on; the error does not leave sampling_loop.
C2_UnknownToolBecomesErrorResult ==
    [][UnknownToolCall => AnsweredWithError]_vars

\* C3 (as claimed): a remote dispatch with no session established, or one
\* whose result item is neither text nor image, is answered with an is_error
\* tool_result and never ends sampling_loop.
C3_GatewayErrorsBecomeErrorResults ==
    [][ /\ (pc = "remote_tool" /\ sessions = <<>>) => AnsweredWithError
        /\ (pc = "remote_tool" /\ sessions # <<>> /\ ~UnknownToolCall) =>
                /\ pc' = "blocks"
                /\ exc' = ""
                /\ Len(tool_result_content') = Len(tool_result_content) + 1
                /\ Last(tool_result_content').tool_use_id = response_params[i].id
      ]_vars

\* C4 (as claimed): on every exit of sampling_loop by completion, provider
\* failure, timeout or an error raised during a tool dispatch, every
\* assistant turn with tool_use blocks is followed by the user turn that
\* answers all of them.
C4_TranscriptWellFormedOnExit ==
    (Exited /\ exc # "output_callback" /\ evaluator # "None") => WellFormed(messages)

\* C5 (as claimed): every exit that is not an exception returns the
\* message list.
C5_NonExceptionExitReturnsMessages ==
    (Exited /\ outcome # "raise") => outcome = "return messages"

\* C6: is_timeout() is evaluated before every provider call, and once it has
\* answered true no provider call is issued, no tool is dispatched and the
\* transcript is neither extended nor edited.
C6_TimeoutStopsEverything ==
    [][ /\ (api_calls' # api_calls => timeout_checks' = timeout_checks + 1)
        /\ (outcome' = "return None" =>
                /\ messages' = messages
                /\ api_calls' = api_calls
                /\ dispatches' = dispatches
                /\ pc' \in {"finally", "done"}) ]_vars

\* C6 witness: the predicate turned true between two turns
C6_Witness ==
    /\ Exited
    /\ outcome = "return None"
    /\ api_calls = 1
    /\ Len(messages) = 3

\* the last provider call failed with an API error and the loop has left
ProviderFailed ==
    /\ pc \in {"finally", "done"}
    /\ last_observed \in {"APIStatusError", "APIError"}

\* C7: a provider call that fails with an API error ends the loop at once:
\* the step that receives the failure goes to the exit with the message list
\* as return value, and that step and every later one leave the transcript,
\* the number of provider calls and the number of dispatches as they were.
C7_ProviderFailureTerminates ==
    [][ /\ (pc = "api" /\ last_observed' \in {"APIStatusError", "APIError"}) =>
                /\ pc' = "finally"
                /\ outcome' = "return messages"
                /\ messages' = messages
                /\ api_calls' = api_calls
                /\ dispatches' = dispatches
        /\ ProviderFailed =>
                /\ pc' = "done"
                /\ outcome' = "return messages"
                /\ messages' = messages
                /\ api_calls' = api_calls
                /\ dispatches' = dispatches ]_vars

\* C7 witness: the second provider call failed after one full turn
C7_Witness ==
    /\ Exited
    /\ last_observed = "APIError"
    /\ api_calls = 2
    /\ Len(messages) = 3

\* C8: api_response_callback has been invoked once for every provider call
\* that has ended, and not yet for the one in flight.
C8_ObserverOncePerCall ==
    observer_calls = api_calls - (IF pc = "api" THEN 1 ELSE 0)

\* C8 witness: one successful and one failed call, two observer invocations
C8_Witness ==
    /\ Exited
    /\ api_calls = 2
    /\ last_observed = "APIStatusError"
    /\ observer_calls = 2

\* C9: mcp_client.cleanup() runs exactly once on every exit of the try block
\* and no context of the exit stack is left open; before the exit it has
\* not run.
C9_CleanupOnceOnEveryExit ==
    /\ cleanups <= 1
    /\ (Exited /\ evaluator # "None") => cleanups = 1
    /\ Exited => exit_stack = <<>>
    /\ ~Exited => cleanups = 0

\* C9 witness: connecting the second server failed with the first connected
C9_Witness ==
    /\ Exited
    /\ exc = "initialize failed"
    /\ Len(sessions) = 1
    /\ cleanups = 1

\* the assistant turn under work holds no tool_use block
NoToolTurn ==
    /\ pc \in {"blocks", "finally", "done"}
    /\ last_observed = "None"
    /\ ToolUses(response_params) = <<>>

\* C10: a response that yields no tool_use block is appended as the
\* assistant turn; from then on the transcript is not extended (no user turn
\* follows), no provider call and no dispatch is made, the loop never gets
\* back to its top, and unless output_callback raises it leaves by
\* returning the message list.
C10_NoToolUseReturns ==
    [][ /\ (pc = "api" /\ pc' = "blocks" /\ ToolUses(response_params') = <<>>) =>
                messages' = Append(messages,
                                   [role |-> "assistant",
                                    content |-> ListContent(response_params')])
        /\ NoToolTurn =>
                /\ messages' = messages
                /\ api_calls' = api_calls
                /\ dispatches' = dispatches
                /\ pc' \in {"blocks", "finally", "done"}
                /\ (pc = "blocks" /\ pc' # "blocks" /\ exc' = "") =>
                        (pc' = "finally" /\ outcome' = "return messages") ]_vars

\* C10 witness: the second response asked for no tool and the loop returned
C10_Witness ==
    /\ Exited
    /\ NoToolTurn
    /\ outcome = "return messages"
    /\ api_calls = 2
    /\ Len(messages) = 4

\* the for loop over the assistant turn's blocks has not finished
Dispatching ==
    \/ pc \in {"local_tool", "remote_tool"}
    \/ (pc = "blocks" /\ i <= Len(response_params))

\* the for loop is over and the assistant turn held at least one tool_use
ToolTurnWalked ==
    /\ pc = "blocks"
    /\ i > Len(response_params)
    /\ ToolUses(response_params) # <<>>

\* C11: when the assistant turn holds k >= 1 tool_use blocks, nothing is
\* appended while its blocks are dispatched; after the k dispatches one user
\* turn holding the k tool_result blocks is appended and the loop is back at
\* its top, where the next step is the timeout check followed, when it
\* answers false, by a new provider call.
C11_ToolTurnThenAwaitingResponse ==
    [][ /\ Dispatching => messages' = messages
        /\ ToolTurnWalked =>
                /\ Len(tool_result_content) = Len(ToolUses(response_params))
                /\ messages' = Append(messages,
                                      [role |-> "user",
                                       content |-> ListContent(tool_result_content)])
                /\ pc' = "loop"
                /\ outcome' = "running"
        /\ pc = "loop" =>
                /\ timeout_checks' = timeout_checks + 1
                /\ pc' \in {"api", "finally"}
                /\ (pc' = "api") = (api_calls' = api_calls + 1) ]_vars

\* C11 witness: two tool_use blocks and a text block were answered by one
\* user turn of two tool_result blocks and the loop is back at its top
C11_Witness ==
    /\ pc = "loop"
    /\ Len(messages) = 3
    /\ Len(messages[2].content.list) = 3
    /\ \E k \in 1..3 : messages[2].content.list[k].type = "text"
    /\ Len(ToolUses(messages[2].content.list)) = 2
    /\ messages[3].role = "user"
    /\ Len(messages[3].content.list) = 2

\* C12: every dispatch is carried out by exactly one of the local tool
\* collection and the remote gateway: by the local collection when the name
\* is in the local collection (also when a remote session declares the same
\* name), by the gateway when it is not.
C12_LocalCollectionFirst ==
    /\ Len(handled) =
            dispatches - (IF pc \in {"local_tool", "remote_tool"} THEN 1 ELSE 0)
    /\ \A k \in 1..Len(handled) :
            /\ handled[k].by \in {"local", "remote"}
            /\ (handled[k].by = "local") = (handled[k].name \in tool_map)
    /\ (\A k \in 1..Len(handled) : handled[k].by = "local") => call_log = <<>>

\* C12 witness: a tool both the local collection and a connected session
\* declare was run locally, and a name only a session declares went remote
C12_Witness ==
    /\ Len(handled) = 2
    /\ handled[1] = [name |-> "computer", by |-> "local"]
    /\ \E k \in 1..Len(sessions) :
            \E j \in 1..Len(sessions[k].tools) : sessions[k].tools[j] = "computer"
    /\ handled[2] = [name |-> "mcp_x", by |-> "remote"]

\* the sessions, by position in connection order, whose tool list holds name
Declaring(name) ==
    { k \in 1..Len(sessions) :
        \E j \in 1..Len(sessions[k].tools) : sessions[k].tools[j] = name }

ListRequest(k) == [session |-> k, request |-> "list_tools"]

CallRequest(k) == [session |-> k, request |-> "call_tool"]

\* C13: MCPClient.call_tool asks the sessions for their tool list in
\* connection order and sends the call to the first session whose list holds
\* the name and to no other; the sessions after it get no request at all,
\* the sessions before it only the list_tools request; when no session
\* declares the name every session is asked and none is called.
C13_FirstDeclaringSessionIsCalled ==
    [][ pc = "remote_tool" =>
            LET name   == response_params[i].name
                owners == Declaring(name)
            IN  IF owners = {}
                THEN call_log' = [k \in 1..Len(sessions) |-> ListRequest(k)]
                ELSE LET first == CHOOSE k \in owners : \A j \in owners : k <= j
                     IN  call_log' = [k \in 1..first |-> ListRequest(k)]
                                        \o << CallRequest(first) >> ]_vars

\* C13 witness: the second of two sessions was called after the first was
\* asked for its list, and the run went on
C13_Witness ==
    /\ call_log = << ListRequest(1), ListRequest(2), CallRequest(2) >>
    /\ Len(sessions) = 2
    /\ pc = "blocks"

\* C14 (as claimed): the descriptor list sent to the provider never holds
\* two descriptors of the same name, whatever the remote sessions report.
C14_DescriptorNamesUnique ==
    \A a, b \in 1..Len(all_tool_list) :
        a # b => all_tool_list[a] # all_tool_list[b]

\* C15 (as claimed): in exec mode "api", once the descriptors are published
\* no tool whose name contains "computer" is in the local tool collection
\* and no descriptor of such a tool is in the list for the provider, for any
\* tool group (the connected sessions declare no such name here).
C15_ApiModeExcludesComputerTools ==
    (exec_mode = "api" /\ pc = "loop") =>
        /\ \A name \in tool_map : ~Contains(name, "computer")
        /\ \A k \in 1..Len(all_tool_list) : ~Contains(all_tool_list[k], "computer")

(* ------------------------------------------------------------------ *)
(* Vocabulary of the image filter claims                                *)
(* ------------------------------------------------------------------ *)

BlocksAt(msgs, m) ==
    IF msgs[m].content.kind = "list" THEN msgs[m].content.list ELSE <<>>

\* the items of block b of message m when it is a tool_result holding a list
ItemsAt(msgs, m, b) ==
    LET block == BlocksAt(msgs, m)[b]
    IN  IF block.type = "tool_result" /\ block.content.kind = "list"
        THEN block.content.list ELSE <<>>

\* the places <<message, block, item>> of the images inside tool_result blocks
ToolResultImages(msgs) ==
    UNION { UNION { { <<m, b, c>> : c \in { c \in 1..Len(ItemsAt(msgs, m, b)) :
                                                ItemsAt(msgs, m, b)[c].type = "image" } }
                    : b \in 1..Len(BlocksAt(msgs, m)) }
            : m \in 1..Len(msgs) }

\* place p is not later in the transcript than place q
NotAfter(p, q) ==
    \/ p[1] < q[1]
    \/ p[1] = q[1] /\ p[2] < q[2]
    \/ p[1] = q[1] /\ p[2] = q[2] /\ p[3] <= q[3]

\* the n oldest images inside tool_result blocks
Oldest(msgs, n) ==
    { p \in ToolResultImages(msgs) :
        Cardinality({ q \in ToolResultImages(msgs) : NotAfter(q, p) }) <= n }

\* excess = max(0, total - keep_n), cut down to a multiple of min_chunk
Excess(msgs, keep_n, min_chunk) ==
    LET total == Cardinality(ToolResultImages(msgs))
        over  == IF total > keep_n THEN total - keep_n ELSE 0
    IN  over - (over % min_chunk)

\* the items of seq at the indices in K, in their order
RECURSIVE Pick(_, _, _)
Pick(seq, K, k) ==
    IF k > Len(seq) THEN <<>>
    ELSE (IF k \in K THEN << seq[k] >> ELSE <<>>) \o Pick(seq, K, k + 1)

\* the transcript with the images at the places in gone taken out of their
\* tool_result content and everything else where it was
Without(msgs, gone) ==
    [m \in 1..Len(msgs) |->
        IF msgs[m].content.kind # "list" THEN msgs[m]
        ELSE [role |-> msgs[m].role,
              content |-> ListContent(
                [b \in 1..Len(msgs[m].content.list) |->
                    LET block == msgs[m].content.list[b]
                    IN  IF block.type = "tool_result" /\ block.content.kind = "list"
                        THEN [block EXCEPT !.content = ListContent(
                                Pick(block.content.list,
                                     { c \in 1..Len(block.content.list) :
                                            <<m, b, c>> \notin gone }, 1))]
                        ELSE block])]]

\* a call of the filter with a positive images_to_keep and chunk is about to run
FilterRuns ==
    /\ pc \in {"call", "called"}
    /\ images_to_keep > 0
    /\ min_removal_threshold > 0

\* C16: with keep_n > 0 and min_chunk > 0 the filter removes exactly excess
\* images from the tool_result blocks, excess being max(0, total - keep_n)
\* cut down to a multiple of min_chunk; nothing when total < keep_n.
C16_RemovesExactlyExcess ==
    [][ FilterRuns =>
            /\ Cardinality(ToolResultImages(messages))
                    - Cardinality(ToolResultImages(messages'))
                = Excess(messages, images_to_keep, min_removal_threshold)
            /\ Cardinality(ToolResultImages(messages)) < images_to_keep
                    => messages' = messages ]_vars

\* C16 witness: of four images with one to keep and chunks of two, two were
\* removed and two are left
C16_Witness ==
    /\ pc = "called"
    /\ images_to_keep = 1
    /\ min_removal_threshold = 2
    /\ Len(messages) = 3
    /\ messages[2] = UserTurn(<< ToolResultBlock(2, << TextBlock("t"), TextBlock("u") >>) >>)
    /\ Cardinality(ToolResultImages(messages)) = 2

\* C17: the filter changes nothing but the images inside tool_result
\* blocks: with those images left out, the transcript after the call is the
\* transcript before it (turns, blocks, text items, tool_result blocks with
\* str content and images outside tool_result blocks, all in their order).
C17_OnlyToolResultImagesRemoved ==
    [][ (pc \in {"call", "called", "step"}) =>
            /\ Len(messages') = Len(messages)
            /\ Without(messages', ToolResultImages(messages'))
                    = Without(messages, ToolResultImages(messages)) ]_vars

\* C17 witness: an image of a tool_result was removed while the text items
\* around it and the image block outside a tool_result stayed
C17_Witness ==
    /\ pc = "called"
    /\ Len(messages) = 3
    /\ messages[2] = UserTurn(<< ImageItem("e"), TextBlock("look") >>)
    /\ messages[3] = UserTurn(<< ToolResultBlock(2, << TextBlock("t"), TextBlock("u"),
                                                       ImageItem("c") >>) >>)

\* the survivors of three turns of 5, 2 and 4 images, three kept
LastThreeOfThirdTurn ==
    UserTurn(<< ToolResultBlock(31, << TextBlock("u"), ImageItem("i09") >>),
                ToolResultBlock(32, << ImageItem("i10"), ImageItem("i11") >>) >>)

\* C18: the images the filter removes are the first excess images inside
\* tool_result blocks in transcript order, so the survivors are the most
\* recent ones in their order; with turns of 5, 2 and 4 images, keep_n = 3
\* and min_chunk = 2, eight are removed and the last three images of the
\* third turn remain.
C18_OldestImagesRemovedFirst ==
    [][ /\ FilterRuns =>
                messages' = Without(messages,
                                    Oldest(messages,
                                           Excess(messages, images_to_keep,
                                                  min_removal_threshold)))
        /\ (pc = "call" /\ messages = ThreeImageTurns
                /\ images_to_keep = 3 /\ min_removal_threshold = 2) =>
                /\ Cardinality(ToolResultImages(messages')) = 11 - 8
                /\ messages'[5] = LastThreeOfThirdTurn
                /\ ToolResultImages(messages') = { <<5, 1, 2>>, <<5, 2, 1>>, <<5, 2, 2>> }
      ]_vars

\* C18 witness: the turns of 5, 2 and 4 images after the call with keep_n = 3
\* and min_chunk = 2
C18_Witness ==
    /\ pc = "called"
    /\ images_to_keep = 3
    /\ min_removal_threshold = 2
    /\ Len(messages) = 5
    /\ messages[5] = LastThreeOfThirdTurn
    /\ Cardinality(ToolResultImages(messages)) = 3

\* C19: the filter leaves a transcript with at most keep_n tool_result
\* images as it is, and a second call with the same arguments changes
\* nothing the first call left.
C19_FilterIdempotent ==
    [][ /\ (FilterRuns /\ Cardinality(ToolResultImages(messages)) <= images_to_keep)
                => messages' = messages
        /\ (FilterRuns /\ pc = "called") => messages' = messages ]_vars

\* C19 witness: two calls were made; the first cut four images down to two
\* with one to keep and chunks of two, the second left the two
C19_Witness ==
    /\ pc = "done"
    /\ exc = ""
    /\ images_to_keep = 1
    /\ min_removal_threshold = 2
    /\ Len(messages) = 3
    /\ messages[2] = UserTurn(<< ToolResultBlock(2, << TextBlock("t"), TextBlock("u") >>) >>)
    /\ Cardinality(ToolResultImages(messages)) = 2

C21_ZeroChunkRemovesExcess ==
    [][ (pc \in {"call", "called"} /\ images_to_keep >= 0
            /\ min_removal_threshold = 0) =>
            /\ exc' = ""
            /\ outcome' = "running"
            /\ Cardinality(ToolResultImages(messages))
                    - Cardinality(ToolResultImages(messages'))
                = (IF Cardinality(ToolResultImages(messages)) > images_to_keep
                   THEN Cardinality(ToolResultImages(messages)) - images_to_keep
                   ELSE 0) ]_vars

(* ------------------------------------------------------------------ *)
(* A session: the caller re-enters sampling_loop on one transcript      *)
(* ------------------------------------------------------------------ *)

\* the turn the caller appends before it calls sampling_loop: a list holding
\* one text block (run_pure_computer_use_with_eval.py:178, streamlit.py:398),
\* or a plain str, which the message format allows as well
CallerTurns == { UserTextTurn, [role |-> "user", content |-> StrContent("task")] }

\* sampling_loop stands at its while loop for the first time: exec_mode "gui",
\* no server to connect, the tool group of computer_only instantiated
InitSession ==
    /\ provider = "anthropic"
    /\ only_n_most_recent_images = 0
    /\ evaluator = "set"
    /\ exec_mode = "gui"
    /\ mcp_servers = <<>>
    /\ tool_version = "computer_only"
    /\ tool_groups = TOOL_GROUPS_BY_VERSION
    /\ messages \in { << turn >> : turn \in CallerTurns }
    /\ pc = "loop"
    /\ sessions = <<>>
    /\ exit_stack = <<>>
    /\ cleanups = 0
    /\ tool_map = {"computer"}
    /\ all_tool_list = <<"computer">>
    /\ connected = 0
    /\ system_cached = FALSE
    /\ raw_response = <<>>
    /\ response_params = <<>>
    /\ i = 1
    /\ tool_result_content = <<>>
    /\ outcome = "running"
    /\ exc = ""
    /\ api_calls = 0
    /\ observer_calls = 0
    /\ last_observed = ""
    /\ timeout_checks = 0
    /\ dispatches = 0
    /\ blocks_received = 0
    /\ handled = <<>>
    /\ call_log = <<>>
    /\ images_to_keep = None
    /\ min_removal_threshold = 0
    /\ evaluator_task_id = "set"
    /\ record_event_raises = FALSE
    /\ events = <<>>
    /\ callbacks_record = FALSE
    /\ output_log = <<>>
    /\ tool_output_log = <<>>

\* loop.py:229-279: is_timeout() is false; the request is shaped and sent
\* (the counters run over the whole session)
SessionRequest ==
    /\ pc = "loop"
    /\ messages' = PrepareMessages(messages, provider, only_n_most_recent_images)
    /\ only_n_most_recent_images' =
            IF provider = "anthropic" THEN 0 ELSE only_n_most_recent_images
    /\ system_cached' = (system_cached \/ provider = "anthropic")
    /\ timeout_checks' = timeout_checks + 1
    /\ api_calls' = api_calls + 1
    /\ pc' = "api"
    /\ UNCHANGED << params, local, gateway, tool_groups, tool_map, all_tool_list,
                    observer_calls, last_observed, dispatches, outcome, exc >>
    /\ UNCHANGED << blocks_received, routing, filter_args, notifications, callbacks >>

\* loop.py:229 and 339-340: is_timeout() is true; sampling_loop returns None
\* after the cleanup
SessionTimeout ==
    /\ pc = "loop"
    /\ timeout_checks' = timeout_checks + 1
    /\ outcome' = "return None"
    /\ cleanups' = 1
    /\ pc' = "done"
    /\ UNCHANGED << params, only_n_most_recent_images, messages, local, sessions,
                    exit_stack, connected, registry, api_calls, observer_calls,
                    last_observed, dispatches, exc >>
    /\ UNCHANGED << blocks_received, routing, filter_args, notifications, callbacks >>

\* loop.py:280-285 and 339-340: the provider call fails; sampling_loop returns
\* messages after the cleanup
SessionProviderError ==
    /\ pc = "api"
    /\ observer_calls' = observer_calls + 1
    /\ last_observed' = "APIError"
    /\ outcome' = "return messages"
    /\ cleanups' = 1
    /\ pc' = "done"
    /\ UNCHANGED << params, only_n_most_recent_images, messages, local, sessions,
                    exit_stack, connected, registry, api_calls, timeout_checks,
                    dispatches, exc >>
    /\ UNCHANGED << blocks_received, routing, filter_args, notifications, callbacks >>

\* loop.py:287-336 and 339-340: the response holds one text block; it becomes
\* the assistant turn, is handed to output_callback and sampling_loop returns
SessionAnswer ==
    /\ pc = "api"
    /\ Len(messages) + 1 <= MaxTranscript
    /\ LET blocks == << TextBlock("hi") >>
       IN  /\ messages' = Append(messages,
                                 [role |-> "assistant", content |-> ListContent(blocks)])
           /\ response_params' = blocks
           /\ i' = Len(blocks) + 1
           /\ output_callback(Len(messages) + 1, 1)
           /\ blocks_received' = blocks_received + Len(blocks)
    /\ tool_result_content' = <<>>
    /\ observer_calls' = observer_calls + 1
    /\ last_observed' = "None"
    /\ outcome' = "return messages"
    /\ cleanups' = 1
    /\ pc' = "done"
    /\ UNCHANGED << params, only_n_most_recent_images, sessions, exit_stack,
                    connected, registry, api_calls, timeout_checks, dispatches,
                    exc, routing, filter_args, notifications, callbacks_record,
                    tool_output_log, raw_response >>

\* loop.py:287-338: the response holds one tool_use block of the local tool;
\* it becomes the assistant turn, the tool runs between its two notifications
\* and the tool_result turn is appended
SessionToolTurn ==
    /\ pc = "api"
    /\ Len(messages) + 2 <= MaxTranscript
    /\ \E result \in LocalResults :
        LET id      == Len(messages) + 1
            blocks  == << ToolUseBlock(id, "computer") >>
            results == << _make_api_tool_result(result, id) >>
        IN  /\ messages' = messages \o
                    << [role |-> "assistant", content |-> ListContent(blocks)],
                       [role |-> "user", content |-> ListContent(results)] >>
            /\ response_params' = blocks
            /\ i' = Len(blocks) + 1
            /\ tool_result_content' = results
            /\ output_callback(Len(messages) + 1, 1)
            /\ blocks_received' = blocks_received + Len(blocks)
            /\ tool_output_callback(result, id)
            /\ events' =
                    IF evaluator = "set" /\ evaluator_task_id = "set"
                    THEN events \o
                            << [type |-> "TOOL_CALL_START", recorded |-> TRUE,
                                data |-> [tool_name |-> "computer"]],
                               [type |-> "TOOL_CALL_END", recorded |-> TRUE,
                                data |-> event_data("computer", result)] >>
                    ELSE events
    /\ handled' = Append(handled, [name |-> "computer", by |-> "local"])
    /\ dispatches' = dispatches + 1
    /\ observer_calls' = observer_calls + 1
    /\ last_observed' = "None"
    /\ pc' = "loop"
    /\ UNCHANGED << params, only_n_most_recent_images, gateway, registry,
                    api_calls, timeout_checks, outcome, exc, call_log,
                    filter_args, evaluator_task_id, record_event_raises,
                    callbacks_record, raw_response >>

\* run_pure_computer_use_with_eval.py:178-216: sampling_loop has returned; the
\* caller appends the next user turn to the list it holds and calls
\* sampling_loop again, which builds a new MCPClient
CallerAppendsTurn ==
    /\ pc = "done"
    /\ Len(messages) + 1 <= MaxTranscript
    /\ \E turn \in CallerTurns : messages' = Append(messages, turn)
    /\ response_params' = <<>>
    /\ i' = 1
    /\ tool_result_content' = <<>>
    /\ outcome' = "running"
    /\ cleanups' = 0
    /\ pc' = "loop"
    /\ UNCHANGED << params, only_n_most_recent_images, sessions, exit_stack,
                    connected, registry, counters, exc, raw_response >>
    /\ UNCHANGED << blocks_received, routing, filter_args, notifications, callbacks >>

NextSession ==
    \/ SessionRequest
    \/ SessionTimeout
    \/ SessionProviderError
    \/ SessionAnswer
    \/ SessionToolTurn
    \/ CallerAppendsTurn

SpecSession == InitSession /\ [][NextSession]_vars

(* ------------------------------------------------------------------ *)
(* Vocabulary of the prompt caching claims                              *)
(* ------------------------------------------------------------------ *)

\* the turn carries a cache hint on one of its content items
HasHint(turn) ==
    /\ turn.content.kind = "list"
    /\ \E j \in 1..Len(turn.content.list) : HasCacheControl(turn.content.list[j])

HintedTurns(msgs) == { k \in 1..Len(msgs) : HasHint(msgs[k]) }

\* the user turns whose content is a list of blocks
BlockUserTurns(msgs) ==
    { k \in 1..Len(msgs) : msgs[k].role = "user" /\ msgs[k].content.kind = "list" }

\* the n largest members of the set of positions S (all of S when it has fewer)
MostRecent(S, n) == { k \in S : Cardinality({ j \in S : j >= k }) <= n }

\* C22 (as claimed): at every point of a session, in the requests sent
\* included, at most 3 turns of the transcript carry a cache hint.
C22_AtMostThreeHints ==
    Cardinality(HintedTurns(messages)) <= 3

\* C23: when _inject_prompt_caching has run on a transcript with q user
\* turns whose content is a list of blocks, the min(3, q) most recent of
\* them carry a cache hint on their last content item; the assistant turns
\* and the user turns with str content are as they were and carry no hint.
C23_RecentBlockUserTurnsHinted ==
    [][ (pc = "loop" /\ pc' = "api" /\ provider = "anthropic") =>
            /\ Len(messages') = Len(messages)
            /\ \A k \in MostRecent(BlockUserTurns(messages), 3) :
                    HasCacheControl(Last(messages'[k].content.list))
            /\ \A k \in (1..Len(messages)) \ BlockUserTurns(messages) :
                    /\ messages'[k] = messages[k]
                    /\ ~HasHint(messages'[k]) ]_vars

\* C23 witness: a request went out with four user turns of blocks, the three
\* most recent hinted and the oldest not, and a user turn of str content
C23_Witness ==
    /\ pc = "api"
    /\ Cardinality(BlockUserTurns(messages)) = 4
    /\ HintedTurns(messages) = MostRecent(BlockUserTurns(messages), 3)
    /\ \E k \in 1..Len(messages) :
            messages[k].role = "user" /\ messages[k].content.kind = "str"
    /\ \E k \in 1..Len(messages) : messages[k].role = "assistant"

\* C24: with provider bedrock or vertex no cache hint is ever attached: the
\* system prompt carries no cache marker and no turn of the transcript
\* carries a cache hint at any point of the run.
C24_NoHintsWithoutCaching ==
    provider # "anthropic" =>
        /\ ~system_cached
        /\ HintedTurns(messages) = {}

\* C24 witness: a vertex run issued two requests over a transcript with a
\* tool_result turn and returned
C24_Witness ==
    /\ provider = "vertex"
    /\ Exited
    /\ api_calls = 2
    /\ Len(messages) = 4
    /\ messages[3].role = "user"

\* C25: with provider anthropic (prompt caching active) no step removes an
\* image from the transcript, whatever only_n_most_recent_images the caller
\* passed, and every request is sent with the retention count at zero.
C25_CachingKeepsEveryImage ==
    [][ provider = "anthropic" =>
            /\ ToolResultImages(messages) \subseteq ToolResultImages(messages')
            /\ pc' = "api" => only_n_most_recent_images' = 0 ]_vars

\* C25 witness: the second request of an anthropic run went out with the two
\* tool_result images of the first turn in it
C25_Witness ==
    /\ provider = "anthropic"
    /\ pc = "api"
    /\ api_calls = 2
    /\ Cardinality(ToolResultImages(messages)) = 2

\* C26 (as claimed): without an evaluator sampling_loop runs as it does with
\* one: it gets to its loop, where is_timeout() is consulted, and no
\* exception of the missing evaluator leaves it.
C26_NoEvaluatorRunsTheLoop ==
    (evaluator = "None" /\ Exited) =>
        /\ exc # "AttributeError"
        /\ timeout_checks >= 1

(* ------------------------------------------------------------------ *)
(* The loop with an evaluator whose record_event may fail               *)
(* ------------------------------------------------------------------ *)

\* sampling_loop is entered with or without a task id, and with an evaluator
\* whose record_event may or may not raise; one server is to be connected
InitNotifications ==
    /\ provider = "bedrock"
    /\ only_n_most_recent_images = 0
    /\ evaluator = "set"
    /\ exec_mode = "mixed"
    /\ mcp_servers = << SrvA >>
    /\ tool_version = "computer_only"
    /\ tool_groups = TOOL_GROUPS_BY_VERSION
    /\ messages = << UserTextTurn >>
    /\ pc = "entry"
    /\ sessions = <<>>
    /\ exit_stack = <<>>
    /\ cleanups = 0
    /\ tool_map = {}
    /\ all_tool_list = <<>>
    /\ connected = 0
    /\ system_cached = FALSE
    /\ raw_response = <<>>
    /\ response_params = <<>>
    /\ i = 1
    /\ tool_result_content = <<>>
    /\ outcome = "running"
    /\ exc = ""
    /\ api_calls = 0
    /\ observer_calls = 0
    /\ last_observed = ""
    /\ timeout_checks = 0
    /\ dispatches = 0
    /\ blocks_received = 0
    /\ handled = <<>>
    /\ call_log = <<>>
    /\ images_to_keep = None
    /\ min_removal_threshold = 0
    /\ evaluator_task_id \in {"None", "set"}
    /\ record_event_raises \in BOOLEAN
    /\ events = <<>>
    /\ callbacks_record = TRUE
    /\ output_log = <<>>
    /\ tool_output_log = <<>>

SpecNotifications == InitNotifications /\ [][Next]_vars

(* ------------------------------------------------------------------ *)
(* The loop under every provider and image retention count              *)
(* ------------------------------------------------------------------ *)

\* sampling_loop is entered with any provider and with
\* only_n_most_recent_images None (0) or 1; one server is to be connected
InitProviders ==
    /\ provider \in APIProvider
    /\ only_n_most_recent_images \in {0, 1}
    /\ evaluator = "set"
    /\ exec_mode = "mixed"
    /\ mcp_servers = << SrvA >>
    /\ tool_version = "computer_only"
    /\ tool_groups = TOOL_GROUPS_BY_VERSION
    /\ messages = << UserTextTurn >>
    /\ pc = "entry"
    /\ sessions = <<>>
    /\ exit_stack = <<>>
    /\ cleanups = 0
    /\ tool_map = {}
    /\ all_tool_list = <<>>
    /\ connected = 0
    /\ system_cached = FALSE
    /\ raw_response = <<>>
    /\ response_params = <<>>
    /\ i = 1
    /\ tool_result_content = <<>>
    /\ outcome = "running"
    /\ exc = ""
    /\ api_calls = 0
    /\ observer_calls = 0
    /\ last_observed = ""
    /\ timeout_checks = 0
    /\ dispatches = 0
    /\ blocks_received = 0
    /\ handled = <<>>
    /\ call_log = <<>>
    /\ images_to_keep = None
    /\ min_removal_threshold = 0
    /\ evaluator_task_id = "set"
    /\ record_event_raises = FALSE
    /\ events = <<>>
    /\ callbacks_record = FALSE
    /\ output_log = <<>>
    /\ tool_output_log = <<>>

SpecProviders == InitProviders /\ [][Next]_vars

(* ------------------------------------------------------------------ *)
(* Vocabulary of the notification and callback claims                   *)
(* ------------------------------------------------------------------ *)

\* a tool has been started and has not come back
ToolRunning == pc \in {"local_tool", "remote_tool"}

\* the step called record_event and the call raised
NotificationFailed ==
    /\ Len(events') = Len(events) + 1
    /\ ~Last(events').recorded

\* the places << turn, block >> of the content blocks of the assistant turns
\* among msgs[m..], in transcript order
RECURSIVE AssistantBlocks(_, _)
AssistantBlocks(msgs, m) ==
    IF m > Len(msgs) THEN <<>>
    ELSE (IF msgs[m].role = "assistant"
          THEN [b \in 1..Len(msgs[m].content.list) |-> << m, b >>]
          ELSE <<>>)
            \o AssistantBlocks(msgs, m + 1)

\* C27 (as claimed): with an evaluator whose record_event does not raise and
\* a task id, every dispatch is bracketed by its events: start and end events
\* alternate, beginning with a start, every one of them is recorded, and
\* except while a tool runs every start has been followed by its end (two
\* events per dispatch).
C27_EventsBracketDispatches ==
    (evaluator = "set" /\ evaluator_task_id = "set" /\ ~record_event_raises) =>
        /\ \A k \in 1..Len(events) :
                /\ events[k].recorded
                /\ events[k].type =
                        IF k % 2 = 1 THEN "TOOL_CALL_START" ELSE "TOOL_CALL_END"
        /\ Len(events) = 2 * dispatches - (IF ToolRunning THEN 1 ELSE 0)

\* C28: when record_event raises in a start or an end notification, the
\* exception does not leave the notification: after a failed start the tool
\* is dispatched, after a failed end its tool_result is appended and the
\* for loop goes on, and nothing is raised out of sampling_loop.
C28_FailedNotificationIsSwallowed ==
    [][ NotificationFailed =>
            /\ exc' = ""
            /\ outcome' = "running"
            /\ messages' = messages
            /\ Last(events').type = "TOOL_CALL_START" =>
                    /\ pc = "blocks"
                    /\ dispatches' = dispatches + 1
                    /\ pc' = IF response_params[i].name \in tool_map
                             THEN "local_tool" ELSE "remote_tool"
                    /\ tool_result_content' = tool_result_content
            /\ Last(events').type = "TOOL_CALL_END" =>
                    /\ ToolRunning
                    /\ pc' = "blocks"
                    /\ i' = i + 1
                    /\ Len(tool_result_content') = Len(tool_result_content) + 1
                    /\ Last(tool_result_content').tool_use_id = response_params[i].id
                    /\ Len(tool_output_log') = Len(tool_output_log) + 1 ]_vars

\* C28 witness: both notifications of a dispatch failed, the tool_result
\* turn was appended, a second request was answered and the loop returned
C28_Witness ==
    /\ Exited
    /\ outcome = "return messages"
    /\ Len(messages) = 4
    /\ messages[3].role = "user"
    /\ Len(events) = 2
    /\ ~events[1].recorded
    /\ ~events[2].recorded

\* C29 (as claimed): output_callback is called once for each block of every
\* assistant turn appended, in the order of the turn: the blocks it has been
\* called with are the first blocks of the assistant turns at any time, and
\* all of them once no turn is being walked (output_callback not raising).
C29_EveryBlockOutputOnce ==
    LET emitted == AssistantBlocks(messages, 1)
    IN  /\ Len(output_log) <= Len(emitted)
        /\ output_log = SubSeq(emitted, 1, Len(output_log))
        /\ (~Dispatching /\ exc # "output_callback") => output_log = emitted

\* C30 (as claimed): tool_output_callback is called once for every
\* dispatched tool_use, with the id of the block and the result that went
\* into its tool_result, before the next dispatch starts: except while a
\* tool runs there is one call per dispatch.
C30_ToolOutputOncePerDispatch ==
    /\ Len(tool_output_log) = dispatches - (IF ToolRunning THEN 1 ELSE 0)
    /\ \A k \in 1..Len(tool_result_content) :
            LET call == tool_output_log[Len(tool_output_log)
                                            - Len(tool_result_content) + k]
            IN  _make_api_tool_result(call.result, call.tool_use_id)
                    = tool_result_content[k]

(* ------------------------------------------------------------------ *)
(* The loop over the tool_use blocks, with tools that return anything   *)
(* ------------------------------------------------------------------ *)

\* the string of n copies of c
RECURSIVE Repeat(_, _)
Repeat(c, n) ==
    IF n = 0 THEN ""
    ELSE IF n % 2 = 0 THEN LET half == Repeat(c, n \div 2) IN half \o half
    ELSE c \o Repeat(c, n - 1)

\* the output of a tool: none, a short one, one of 1000 characters and one of
\* 1001 (len(output_str) > 1000 at loop.py:159 parts the last two)
ToolOutputs == {"", "out", Repeat("ab", 500), Repeat("ab", 500) \o "c"}

\* every ToolResult: each of output, error, base64_image and system set or not
ToolResults ==
    { ToolResult(output, error, base64_image, system) :
        output \in ToolOutputs, error \in {"", "err"},
        base64_image \in {"", "png"}, system \in {"", "sys"} }

\* the tool_use blocks of the assistant turn being walked
ToolUseTurn == [k \in 1..MaxToolUses |-> ToolUseBlock(10 + k, "computer")]

\* sampling_loop stands at the top of the for loop (loop.py:302) over a first
\* response made of tool_use blocks of the local tool "computer"; the
\* callbacks keep their arguments
InitToolResults ==
    /\ provider = "bedrock"
    /\ only_n_most_recent_images = 0
    /\ evaluator = "set"
    /\ exec_mode = "gui"
    /\ mcp_servers = <<>>
    /\ tool_version = "computer_only"
    /\ tool_groups = TOOL_GROUPS_BY_VERSION
    /\ messages = << UserTextTurn,
                     [role |-> "assistant", content |-> ListContent(ToolUseTurn)] >>
    /\ pc = "blocks"
    /\ sessions = <<>>
    /\ exit_stack = <<>>
    /\ cleanups = 0
    /\ tool_map = {"computer"}
    /\ all_tool_list = << "computer" >>
    /\ connected = 0
    /\ system_cached = FALSE
    /\ raw_response = <<>>
    /\ response_params = ToolUseTurn
    /\ i = 1
    /\ tool_result_content = <<>>
    /\ outcome = "running"
    /\ exc = ""
    /\ api_calls = 1
    /\ observer_calls = 1
    /\ last_observed = "None"
    /\ timeout_checks = 1
    /\ dispatches = 0
    /\ blocks_received = MaxToolUses
    /\ handled = <<>>
    /\ call_log = <<>>
    /\ images_to_keep = None
    /\ min_removal_threshold = 0
    /\ evaluator_task_id = "set"
    /\ record_event_raises = FALSE
    /\ events = <<>>
    /\ callbacks_record = TRUE
    /\ output_log = <<>>
    /\ tool_output_log = <<>>

\* loop.py:315-333: tool_collection.run returns any ToolResult
ToolReturns ==
    /\ pc = "local_tool"
    /\ \E result \in ToolResults : FinishTool(result)
    /\ handled' = Append(handled, [name |-> response_params[i].name, by |-> "local"])
    /\ UNCHANGED << params, only_n_most_recent_images, messages, gateway,
                    registry, counters, blocks_received, call_log, filter_args,
                    evaluator_task_id, record_event_raises, callbacks_record,
                    output_log >>

NextToolResults ==
    \/ StartTool
    \/ ToolReturns
    \/ AppendToolResults

SpecToolResults == InitToolResults /\ [][NextToolResults]_vars

(* ------------------------------------------------------------------ *)
(* Vocabulary of the tool result claims                                 *)
(* ------------------------------------------------------------------ *)

\* the text a tool_result carries for result_text: the system annotation, when
\* the result has one, in front of it
Annotated(result, result_text) ==
    IF result.system = "" THEN result_text
    ELSE "<system>" \o result.system \o "</system>\n" \o result_text

\* the ToolResult the k-th tool_result block of the turn was made from, as
\* tool_output_callback got it
ResultOf(k) == tool_output_log[k].result

\* C31: is_error of a tool_result is true exactly when the result's error is
\* set, and a result with an error gives a tool_result whose content is the
\* error text alone, behind the system annotation when there is one: no text
\* item for the output and no image item, whatever else the result holds.
C31_ErrorTakesPrecedence ==
    \A k \in 1..Len(tool_result_content) :
        LET result == ResultOf(k)
            block  == tool_result_content[k]
        IN  /\ block.is_error <=> (result.error # "")
            /\ result.error # "" =>
                    /\ block.content.kind = "str"
                    /\ block.content.str = Annotated(result, result.error)

\* C31 witness: a result holding an error, an output, an image and a system
\* annotation has been turned into a tool_result block
C31_Witness ==
    \E k \in 1..Len(tool_result_content) :
        /\ ResultOf(k) = ToolResult("out", "err", "png", "sys")
        /\ tool_result_content[k].is_error

(* ------------------------------------------------------------------ *)
(* Vocabulary of the sequencing claims                                  *)
(* ------------------------------------------------------------------ *)

\* provider calls sent whose response or error has not come back
ProviderCallsInFlight == api_calls - observer_calls

\* tools started that have neither returned nor raised
DispatchesInFlight == dispatches - Len(handled)

\* the step sends a request to the provider
SendsRequest == api_calls' = api_calls + 1

\* the step starts a tool
StartsDispatch == dispatches' = dispatches + 1

\* C32: at most one provider call or tool dispatch is in flight. A dispatch
\* starts only when the response has been received and every earlier tool_use
\* block of the assistant turn has got its tool_result (block order, one after
\* another); a request is sent only when nothing is in flight and, after the
\* first, when the tool_result turn answering every tool_use of the last
\* response is the last turn of the transcript.
C32_TurnsStrictlySequential ==
    [][ /\ ProviderCallsInFlight' + DispatchesInFlight' \in {0, 1}
        /\ StartsDispatch =>
                /\ ProviderCallsInFlight = 0
                /\ DispatchesInFlight = 0
                /\ Last(messages).role = "assistant"
                /\ Last(messages).content.list = response_params
                /\ response_params[i].type = "tool_use"
                /\ Len(ToolUses(SubSeq(response_params, 1, i - 1)))
                        = Len(tool_result_content)
        /\ SendsRequest =>
                /\ ProviderCallsInFlight = 0
                /\ DispatchesInFlight = 0
                /\ api_calls > 0 =>
                        /\ Last(messages).role = "user"
                        /\ Last(messages).content.list = tool_result_content
                        /\ Len(tool_result_content) = Len(ToolUses(response_params))
                        /\ tool_result_content # <<>> ]_vars

\* C32 witness: both tool_use blocks of the first response have been
\* dispatched, one through the gateway, and the second request is in flight
C32_Witness ==
    /\ pc = "api"
    /\ api_calls = 2
    /\ dispatches = 2
    /\ Len(handled) = 2
    /\ handled[1].by # handled[2].by
    /\ Len(messages) = 3

(* ------------------------------------------------------------------ *)
(* Vocabulary of the hint stripping claim                               *)
(* ------------------------------------------------------------------ *)

\* the user turns of blocks that are older than the three most recent ones
OlderBlockUserTurns(msgs) ==
    BlockUserTurns(msgs) \ MostRecent(BlockUserTurns(msgs), 3)

\* the turn without the cache hint of its last content item
HintStripped(turn) ==
    [turn EXCEPT !.content.list[Len(turn.content.list)] =
                        PopCacheControl(turn.content.list[Len(turn.content.list)])]

\* C33: when _inject_prompt_caching has used up its three hints and meets a
\* further user turn of blocks, it strips the hint of the last content item
\* of that turn, the most recent of the older ones, and of no other: every
\* turn before it is exactly as it was, a cache hint it carries included.
C33_StripsOneTurnAndStops ==
    [][ (pc = "loop" /\ pc' = "api" /\ provider = "anthropic"
            /\ OlderBlockUserTurns(messages) # {}) =>
            LET next_older == CHOOSE k \in OlderBlockUserTurns(messages) :
                                \A j \in OlderBlockUserTurns(messages) : j <= k
            IN  /\ messages'[next_older] = HintStripped(messages[next_older])
                /\ ~HasHint(messages'[next_older])
                /\ \A k \in 1..(next_older - 1) : messages'[k] = messages[k] ]_vars

\* C33 witness: a request went out with five user turns of blocks; the three
\* most recent are hinted, the fourth has lost the hint it had carried since
\* an earlier request, the oldest still carries its hint
C33_Witness ==
    /\ pc = "api"
    /\ Cardinality(BlockUserTurns(messages)) = 5
    /\ \E old \in OlderBlockUserTurns(messages) :
            /\ HasHint(messages[old])
            /\ \E stripped \in OlderBlockUserTurns(messages) :
                    stripped > old /\ ~HasHint(messages[stripped])
    /\ \A k \in MostRecent(BlockUserTurns(messages), 3) : HasHint(messages[k])

\* C34: is_timeout() is consulted only at the top of the while loop, and only
\* there does the run end with the timeout. A provider call in flight ends
\* with its response or its error, which the observer is told. While the
\* blocks of a response are walked the steps are the next output or dispatch,
\* an exception, the return of a response without tool_use, or the append of
\* the tool_result turn that answers every tool_use block of the response.
C34_TimeoutOnlyBetweenTurns ==
    [][ /\ timeout_checks' # timeout_checks => pc = "loop"
        /\ (outcome' = "return None" /\ outcome # "return None") =>
                pc = "loop" /\ timeout_checks' = timeout_checks + 1
        /\ pc = "api" => observer_calls' = observer_calls + 1
        /\ (pc = "blocks" \/ ToolRunning) =>
                \/ /\ pc' = "blocks" \/ ToolRunning'
                   /\ messages' = messages
                   /\ outcome' = "running"
                \/ outcome' = "raise"
                \/ /\ outcome' = "return messages"
                   /\ i > Len(response_params)
                   /\ ToolUses(response_params) = <<>>
                   /\ messages' = messages
                \/ /\ pc' = "loop"
                   /\ outcome' = "running"
                   /\ i > Len(response_params)
                   /\ Len(tool_result_content) = Len(ToolUses(response_params))
                   /\ messages' = Append(messages,
                            [role |-> "user",
                             content |-> ListContent(tool_result_content)]) ]_vars

\* C34 witness: the two tool_use blocks of the first response were dispatched,
\* their tool_result turn was appended, and the next consultation of
\* is_timeout() ended the run
C34_Witness ==
    /\ Exited
    /\ outcome = "return None"
    /\ timeout_checks = 2
    /\ api_calls = 1
    /\ dispatches = 2
    /\ Len(messages) = 3
    /\ Len(messages[3].content.list) = 2

(* ------------------------------------------------------------------ *)
(* The conversion of any provider response                              *)
(* ------------------------------------------------------------------ *)

\* the blocks of a BetaMessage: a BetaTextBlock (it has a citations field)
\* with or without text, thinking blocks with either of two signatures, and
\* tool_use blocks
ResponseBlocks ==
    { [type |-> "text", text |-> text, citations |-> "None"] : text \in {"hi", ""} }
        \cup { [type |-> "thinking", thinking |-> "th", signature |-> sig] :
                    sig \in {"sig", "sig2"} }
        \cup { ToolUseBlock(0, n) : n \in ToolNames }

\* the provider has answered the first request with any response of at most
\* MaxBlocks blocks (loop.py:270); it is to be parsed and converted
InitResponses ==
    /\ provider = "bedrock"
    /\ only_n_most_recent_images = 0
    /\ evaluator = "set"
    /\ exec_mode = "gui"
    /\ mcp_servers = <<>>
    /\ tool_version = "computer_only"
    /\ tool_groups = TOOL_GROUPS_BY_VERSION
    /\ messages = << UserTextTurn >>
    /\ pc = "response"
    /\ sessions = <<>>
    /\ exit_stack = <<>>
    /\ cleanups = 0
    /\ tool_map = {"computer"}
    /\ all_tool_list = << "computer" >>
    /\ connected = 0
    /\ system_cached = FALSE
    /\ raw_response \in { NumberIds(raw, 1) : raw \in SeqsUpTo(ResponseBlocks, MaxBlocks) }
    /\ response_params = <<>>
    /\ i = 1
    /\ tool_result_content = <<>>
    /\ outcome = "running"
    /\ exc = ""
    /\ api_calls = 1
    /\ observer_calls = 0
    /\ last_observed = ""
    /\ timeout_checks = 1
    /\ dispatches = 0
    /\ blocks_received = 0
    /\ handled = <<>>
    /\ call_log = <<>>
    /\ images_to_keep = None
    /\ min_removal_threshold = 0
    /\ evaluator_task_id = "set"
    /\ record_event_raises = FALSE
    /\ events = <<>>
    /\ callbacks_record = FALSE
    /\ output_log = <<>>
    /\ tool_output_log = <<>>

\* loop.py:287-301: the observer is told, the response is parsed, converted
\* and appended as the assistant turn
ConvertResponse ==
    /\ pc = "response"
    /\ observer_calls' = observer_calls + 1
    /\ last_observed' = "None"
    /\ blocks_received' = blocks_received + Len(raw_response)
    /\ response_params' = _response_to_params(raw_response)
    /\ messages' = Append(messages,
                          [role |-> "assistant",
                           content |-> ListContent(_response_to_params(raw_response))])
    /\ raw_response' = <<>>
    /\ tool_result_content' = <<>>
    /\ i' = 1
    /\ pc' = "blocks"
    /\ UNCHANGED << params, only_n_most_recent_images, gateway, registry,
                    api_calls, timeout_checks, dispatches, outcome, exc, routing,
                    filter_args, notifications, callbacks >>

NextResponses == ConvertResponse

SpecResponses == InitResponses /\ [][NextResponses]_vars

\* the blocks of a response that are not a text block without text
WithoutEmptyText(content) ==
    SelectSeq(content, LAMBDA block : ~(block.type = "text" /\ block.text = ""))

\* C35: the assistant turn holds the blocks of the response in their order,
\* the text blocks without text left out and nothing else: a text block with
\* text as a text block of the same text, a thinking block and a tool_use
\* block as they came, the signature of the thinking block included.
C35_OnlyEmptyTextDropped ==
    [][ (pc = "response" /\ pc' = "blocks") =>
            LET kept == WithoutEmptyText(raw_response)
            IN  /\ Len(response_params') = Len(kept)
                /\ \A k \in 1..Len(kept) :
                        IF kept[k].type = "text"
                        THEN response_params'[k] = TextBlock(kept[k].text)
                        ELSE response_params'[k] = kept[k]
                /\ Last(messages').role = "assistant"
                /\ Last(messages').content.list = response_params' ]_vars

\* C35 witness: of a response of three blocks the text block without text was
\* dropped; the thinking block with its signature and the tool_use block
\* make up the assistant turn
C35_Witness ==
    /\ pc = "blocks"
    /\ blocks_received = 3
    /\ Len(response_params) = 2
    /\ response_params[1].type = "thinking"
    /\ response_params[1].signature = "sig2"
    /\ response_params[2].type = "tool_use"
    /\ Last(messages).content.list = response_params

(* ------------------------------------------------------------------ *)
(* Vocabulary of the end notification claim                             *)
(* ------------------------------------------------------------------ *)

\* the "result" the end notification of the k-th tool of the turn forwarded
\* (the events of a turn are start, end, start, end, ...)
ForwardedResult(k) == events[2 * k].data.result

\* the text item of the k-th tool_result block of blocks
OutputText(blocks, k) == blocks[k].content.list[1].text

\* the first n characters of the string s
Prefix(s, n) == SubSeq(s, 1, n)

\* C36: for a tool that returned an output and no error, the end notification
\* forwards the output as it is when it has at most 1000 characters, and
\* otherwise its first 500 characters followed by the marker
\* "... (truncated)"; the tool_result block, in the turn and in the
\* transcript, carries the whole output in either case.
C36_NotificationTruncatesNotTranscript ==
    \A k \in 1..Len(tool_result_content) :
        LET result == ResultOf(k)
            output == result.output
        IN  (result.error = "" /\ output # "") =>
                /\ ForwardedResult(k).kind = "str"
                /\ IF Len(output) <= 1000
                   THEN ForwardedResult(k).str = output
                   ELSE /\ Len(ForwardedResult(k).str) = 500 + Len("... (truncated)")
                        /\ Prefix(ForwardedResult(k).str, 500) = Prefix(output, 500)
                        /\ EndsWith(ForwardedResult(k).str, "... (truncated)")
                /\ EndsWith(OutputText(tool_result_content, k), output)
                /\ pc = "loop" =>
                        EndsWith(OutputText(Last(messages).content.list, k), output)

\* C36 witness: one tool returned an output of 1000 characters, forwarded
\* whole, the other one of 1001 characters, forwarded cut; the tool_result
\* turn is in the transcript
C36_Witness ==
    /\ pc = "loop"
    /\ Len(tool_result_content) >= 2
    /\ ResultOf(1).error = ""
    /\ Len(ResultOf(1).output) = 1000
    /\ Len(ForwardedResult(1).str) = 1000
    /\ ResultOf(2).error = ""
    /\ Len(ResultOf(2).output) = 1001
    /\ Len(ForwardedResult(2).str) = 515
    /\ Len(OutputText(Last(messages).content.list, 2)) >= 1001

(* ------------------------------------------------------------------ *)
(* A run of tool turns with an image retention count                    *)
(* ------------------------------------------------------------------ *)

\* what the local tool hands back here: a text output or a screenshot
ScreenshotResults == { ToolResult("out", "", "", ""), ToolResult("", "", "png", "") }

\* sampling_loop stands at its while loop for the first time, with a provider
\* without prompt caching and only_n_most_recent_images from 1 to MaxKeep;
\* exec_mode "gui", the tool group of computer_only, recording callbacks
InitRetention ==
    /\ provider \in APIProvider \ {"anthropic"}
    /\ only_n_most_recent_images \in 1..MaxKeep
    /\ evaluator = "set"
    /\ exec_mode = "gui"
    /\ mcp_servers = <<>>
    /\ tool_version = "computer_only"
    /\ tool_groups = TOOL_GROUPS_BY_VERSION
    /\ messages = << UserTextTurn >>
    /\ pc = "loop"
    /\ sessions = <<>>
    /\ exit_stack = <<>>
    /\ cleanups = 0
    /\ tool_map = {"computer"}
    /\ all_tool_list = <<"computer">>
    /\ connected = 0
    /\ system_cached = FALSE
    /\ raw_response = <<>>
    /\ response_params = <<>>
    /\ i = 1
    /\ tool_result_content = <<>>
    /\ outcome = "running"
    /\ exc = ""
    /\ api_calls = 0
    /\ observer_calls = 0
    /\ last_observed = ""
    /\ timeout_checks = 0
    /\ dispatches = 0
    /\ blocks_received = 0
    /\ handled = <<>>
    /\ call_log = <<>>
    /\ images_to_keep = None
    /\ min_removal_threshold = 0
    /\ evaluator_task_id = "None"
    /\ record_event_raises = FALSE
    /\ events = <<>>
    /\ callbacks_record = TRUE
    /\ output_log = <<>>
    /\ tool_output_log = <<>>

\* loop.py:287-338: the response holds from one to MaxToolUses tool_use blocks
\* of the local tool; it becomes the assistant turn, the tools run in block
\* order and the tool_result turn is appended
RetentionToolTurn ==
    /\ pc = "api"
    /\ Len(messages) + 2 <= MaxTranscript
    /\ \E returned \in SeqsUpTo(ScreenshotResults, MaxToolUses) \ { <<>> } :
        LET n       == Len(returned)
            turn    == Len(messages) + 1
            blocks  == [k \in 1..n |-> ToolUseBlock(10 * turn + k, "computer")]
            results == [k \in 1..n |-> _make_api_tool_result(returned[k], blocks[k].id)]
        IN  /\ messages' = messages \o
                    << [role |-> "assistant", content |-> ListContent(blocks)],
                       [role |-> "user", content |-> ListContent(results)] >>
            /\ response_params' = blocks
            /\ i' = n + 1
            /\ tool_result_content' = results
            /\ blocks_received' = blocks_received + n
            /\ dispatches' = dispatches + n
            /\ handled' = handled \o [k \in 1..n |-> [name |-> "computer", by |-> "local"]]
            /\ output_log' =
                    IF callbacks_record
                    THEN output_log \o [k \in 1..n |-> << turn, k >>]
                    ELSE output_log
            /\ tool_output_log' =
                    IF callbacks_record
                    THEN tool_output_log \o
                            [k \in 1..n |-> [result |-> returned[k],
                                             tool_use_id |-> blocks[k].id]]
                    ELSE tool_output_log
            /\ events' =
                    IF evaluator = "set" /\ evaluator_task_id = "set"
                    THEN events \o
                            [e \in 1..(2 * n) |->
                                IF e % 2 = 1
                                THEN [type |-> "TOOL_CALL_START", recorded |-> TRUE,
                                      data |-> [tool_name |-> "computer"]]
                                ELSE [type |-> "TOOL_CALL_END", recorded |-> TRUE,
                                      data |-> event_data("computer", returned[e \div 2])]]
                    ELSE events
    /\ observer_calls' = observer_calls + 1
    /\ last_observed' = "None"
    /\ pc' = "loop"
    /\ UNCHANGED << params, only_n_most_recent_images, gateway, registry,
                    api_calls, timeout_checks, outcome, exc, call_log,
                    filter_args, evaluator_task_id, record_event_raises,
                    callbacks_record, raw_response >>

NextRetention ==
    \/ SessionRequest
    \/ RetentionToolTurn
    \/ SessionTimeout

SpecRetention == InitRetention /\ [][NextRetention]_vars

\* the images the tools have handed back since the run began
ImagesAccumulated ==
    Len(SelectSeq(tool_output_log, LAMBDA call : call.result.base64_image # ""))

\* the smaller of two numbers
Min(a, b) == IF a <= b THEN a ELSE b

\* C37: with a provider without prompt caching and a retention count keep_n
\* above 0, every request is pruned before it is sent, in chunks of keep_n
\* images: the request carries fewer than 2 * keep_n tool_result images, not
\* fewer than min(total, keep_n) of the images accumulated so far, and the
\* number of images the pruning took out is a multiple of keep_n.
C37_RequestsCarryBoundedImages ==
    [][ (pc = "loop" /\ pc' = "api" /\ provider # "anthropic"
            /\ only_n_most_recent_images > 0) =>
            LET keep_n == only_n_most_recent_images
            IN  /\ TotalImages(messages') < 2 * keep_n
                /\ TotalImages(messages') >= Min(ImagesAccumulated, keep_n)
                /\ TotalImages(messages') >= Min(TotalImages(messages), keep_n)
                /\ (TotalImages(messages) - TotalImages(messages')) % keep_n = 0 ]_vars

\* C37 witness: with a retention count of 2 the tools have handed back four
\* images, and the request in flight carries two of them
C37_Witness ==
    /\ pc = "api"
    /\ only_n_most_recent_images = 2
    /\ ImagesAccumulated = 4
    /\ TotalImages(messages) = 2

(* ------------------------------------------------------------------ *)
(* Several calls of sampling_loop in one process                        *)
(* ------------------------------------------------------------------ *)

\* the process has imported the tool group table and enters sampling_loop for
\* the first time, with any exec_mode and tool version
InitProcess ==
    /\ provider = "bedrock"
    /\ only_n_most_recent_images = 0
    /\ evaluator = "set"
    /\ exec_mode \in ExecModes
    /\ mcp_servers \in ServerLists
    /\ tool_version \in ToolVersions
    /\ tool_groups = TOOL_GROUPS_BY_VERSION
    /\ messages = << UserTextTurn >>
    /\ pc = "entry"
    /\ sessions = <<>>
    /\ exit_stack = <<>>
    /\ cleanups = 0
    /\ tool_map = {}
    /\ all_tool_list = <<>>
    /\ connected = 0
    /\ system_cached = FALSE
    /\ raw_response = <<>>
    /\ response_params = <<>>
    /\ i = 1
    /\ tool_result_content = <<>>
    /\ outcome = "running"
    /\ exc = ""
    /\ api_calls = 0
    /\ observer_calls = 0
    /\ last_observed = ""
    /\ timeout_checks = 0
    /\ dispatches = 0
    /\ blocks_received = 0
    /\ handled = <<>>
    /\ call_log = <<>>
    /\ images_to_keep = None
    /\ min_removal_threshold = 0
    /\ evaluator_task_id = "None"
    /\ record_event_raises = FALSE
    /\ events = <<>>
    /\ callbacks_record = FALSE
    /\ output_log = <<>>
    /\ tool_output_log = <<>>

\* sampling_loop has returned or raised; the process calls it again with the
\* same tool version and an evaluator of any exec_mode. The locals of the
\* call are new, a new MCPClient is built (loop.py:202); the module-level
\* table TOOL_GROUPS_BY_VERSION is the one the earlier calls used.
CallAgain ==
    /\ pc = "done"
    /\ \E mode \in ExecModes : exec_mode' = mode
    /\ pc' = "entry"
    /\ sessions' = <<>>
    /\ exit_stack' = <<>>
    /\ cleanups' = 0
    /\ connected' = 0
    /\ tool_map' = {}
    /\ all_tool_list' = <<>>
    /\ outcome' = "running"
    /\ exc' = ""
    /\ timeout_checks' = 0
    /\ UNCHANGED << provider, evaluator, mcp_servers, tool_version,
                    only_n_most_recent_images, messages, local, tool_groups,
                    system_cached, api_calls, observer_calls, last_observed,
                    dispatches >>
    /\ UNCHANGED << blocks_received, routing, filter_args, notifications, callbacks >>

\* set-up, an immediate timeout, the cleanup, and the next call
NextProcess ==
    \/ Enter
    \/ SetupTools
    \/ ConnectServer
    \/ PublishTools
    \/ TimeoutExit
    \/ Cleanup
    \/ CallAgain

SpecProcess == InitProcess /\ [][NextProcess]_vars

\* the set-up of the call is over: the local collection is built
SetUpDone == pc \notin {"entry", "setup"}

\* C38 (as claimed): a call with exec_mode "mixed" or "gui" has the computer
\* tool of its tool version in its local collection and among the published
\* descriptors, whatever the exec_mode of the calls before it in the process.
C38_ApiFilterStaysInItsSession ==
    (exec_mode \in {"mixed", "gui"} /\ SetUpDone) =>
        /\ "computer" \in tool_map
        /\ InSeq("computer", all_tool_list)

\* the step appends one turn to messages
AppendsTurn == Len(messages') = Len(messages) + 1

\* the turn the step has appended
AppendedTurn == messages'[Len(messages')]

\* C39 (as claimed): every turn sampling_loop appends has a content list of at
\* least one block: an assistant turn also when the response has only empty
\* text blocks, a user turn at least one tool_result block.
C39_NoTurnWithEmptyContent ==
    [][ AppendsTurn =>
            /\ AppendedTurn.content.kind = "list"
            /\ AppendedTurn.content.list # <<>>
            /\ AppendedTurn.role = "user" =>
                  \E k \in 1..Len(AppendedTurn.content.list) :
                      AppendedTurn.content.list[k].type = "tool_result" ]_vars

\* the servers connect_to_server was called for and got past the path test:
\* for each a transport and a session were opened, in this order
Opened ==
    LET attempted == IF exc = "initialize failed" THEN connected + 1 ELSE connected
    IN  [k \in 1..(2 * attempted) |->
            IF k % 2 = 1 THEN << "stdio_client", (k + 1) \div 2 >>
            ELSE << "ClientSession", k \div 2 >>]

\* C40: the sessions list holds exactly the servers whose initialize
\* succeeded, in connection order; until cleanup the exit stack holds the
\* transport and the session of every connect that got past the path test,
\* also of one whose initialize failed and that is not in sessions; a
\* connect rejected for its path opens nothing and adds nothing; once cleanup
\* has run nothing is open.
C40_CleanupClosesAllOpened ==
    /\ sessions = SubSeq(mcp_servers, 1, connected)
    /\ \A k \in 1..Len(sessions) :
            ScriptPathOk(sessions[k].path) /\ sessions[k].init_ok
    /\ cleanups = 0 => exit_stack = Opened
    /\ exc = "ValueError: Server script must be a .py or .js file" =>
            Len(Opened) = 2 * Len(sessions)
    /\ cleanups > 0 => exit_stack = <<>>

\* a call whose second connect failed in initialize has been cleaned up: the
\* session that is not in sessions was on the exit stack and is closed
C40_Witness ==
    /\ pc = "done"
    /\ cleanups = 1
    /\ exc = "initialize failed"
    /\ Len(sessions) = 1
    /\ Len(Opened) = 4
    /\ exit_stack = <<>>

====
